---------------------------- MODULE Spec2Model ----------------------------
(***************************************************************************)
(* bnfgen: validation of a raw BNF grammar (RawGrammar::to_checked,        *)
(* App::lint) and the stack-based derivation engine (Generator::generate,  *)
(* CheckedGrammar::reduce, WeightedProduction::choose_by_state), the       *)
(* graph analysis of the strict lint (RawGrammar::graph, check_unused,     *)
(* check_trap_loop), the tree generator (TreeGenerator::generate), the     *)
(* pattern sampler (Regex::generate, Regex::helper), the command line      *)
(* driver (App::generate), derivations run side by side, and the front     *)
(* end (Token::Str, RawGrammar::parse, convert_parse_error).               *)
(*                                                                         *)
(* Strings that the program builds or splits (terminals, the output) are   *)
(* sequences of one-character strings; identifiers and type tags, which    *)
(* are only compared, are TLA+ strings.                                    *)
(***************************************************************************)
EXTENDS Integers, Sequences, FiniteSets, TLC

(***************************************************************************)
(* Bounds of the model.                                                    *)
(***************************************************************************)
\* n of the alternative `<S> <E> {n}` of the repeat grammar (100 in the test)
MinRepeat == 2
\* number of generate calls that share one RNG
MaxCalls == 2
\* raw values one RNG draw can take: 0 .. RngRange - 1
RngRange == 3
\* reductions of one generate call that the model follows
MaxSteps == 14
\* raw values of the RNG that one sample of a pattern can use
MaxDraws == 2
\* the largest count of outputs asked of App::generate
MaxCount == 2
\* the largest step ceiling (max_steps) given to App::generate
MaxCeiling == 3
\* the largest seed of the RNG of a thread
MaxSeed == 2
\* tokens of a grammar text that the model follows
MaxTokens == 6
\* characters and escapes between the quotes of a string literal
MaxUnits == 2

(***************************************************************************)
(* Symbols, limits, alternatives, rules.                                   *)
(***************************************************************************)
Untyped == "Untyped"

NoStr == <<>>

(***************************************************************************)
(* Compiled patterns: the Hir of regex_syntax, by kind.                    *)
(***************************************************************************)
\* Repetition::max of None: no upper bound
NoMax == -1

Hir(kind, lit, min, max, subs, ranges) ==
    [kind |-> kind, lit |-> lit, min |-> min, max |-> max, subs |-> subs,
     ranges |-> ranges]

\* the symbol is no pattern
NoHir == Hir("None", NoStr, 0, 0, <<>>, <<>>)

Empty == Hir("Empty", NoStr, 0, 0, <<>>, <<>>)

Literal(lit) == Hir("Literal", lit, 0, 0, <<>>, <<>>)

Repetition(min, max, sub) == Hir("Repetition", NoStr, min, max, <<sub>>, <<>>)

Concat(subs) == Hir("Concat", NoStr, 0, 0, subs, <<>>)

Alternation(subs) == Hir("Alternation", NoStr, 0, 0, subs, <<>>)

\* Class::Unicode: ranges of characters << start, end >>, a character being
\* its place in the alphabet
Class(ranges) == Hir("Class", NoStr, 0, 0, <<>>, ranges)

Look == Hir("Look", NoStr, 0, 0, <<>>, <<>>)

Capture(sub) == Hir("Capture", NoStr, 0, 0, <<sub>>, <<>>)

\* the characters, in their order
Alphabet ==
    << "a", "b", "c", "d", "e", "f", "g", "h", "i", "j", "k", "l", "m",
       "n", "o", "p", "q", "r", "s", "t", "u", "v", "w", "x", "y", "z" >>

\* NonTerminal { name, ty }: the key of a rule and the payload of a reference
NonTerminal(name, ty) == [name |-> name, ty |-> ty]

\* SymbolKind::Terminal(s)
T(s) == [kind |-> "Terminal", name |-> "", ty |-> Untyped, lit |-> s, re |-> NoHir]

\* SymbolKind::NonTerminal(NonTerminal { name, ty })
NT(name, ty) ==
    [kind |-> "NonTerminal", name |-> name, ty |-> ty, lit |-> NoStr, re |-> NoHir]

\* SymbolKind::Regex(re)
RE(hir) == [kind |-> "Regex", name |-> "", ty |-> Untyped, lit |-> NoStr, re |-> hir]

\* Limit::Unlimited and Limit::Limited { min, max }
Unlimited == [limited |-> FALSE, min |-> 0, max |-> 0]

Limited(min, max) == [limited |-> TRUE, min |-> min, max |-> max]

\* Alternative { weight, invoke_limit, symbols }; its span is its position
Alternative(weight, symbols, invoke_limit) ==
    [weight |-> weight, symbols |-> symbols, invoke_limit |-> invoke_limit]

\* Rule { lhs, production }; its span is its position in the grammar
Rule(lhs, alts) == [lhs |-> lhs, production |-> alts]

\* the parser's defaults: weight 1, no limit
Alt(symbols) == Alternative(1, symbols, Unlimited)

\* `{n}` means `{n,n}`
AltN(symbols, min, max) == Alternative(1, symbols, Limited(min, max))

(***************************************************************************)
(* Spans: a rule, an alternative and a symbol are named by their position  *)
(* in the grammar text (rule, alternative, symbol), 0 where absent.        *)
(***************************************************************************)
RuleSpan(r) == <<r, 0, 0>>

AltSpan(r, a) == <<r, a, 0>>

SymSpan(r, a, s) == <<r, a, s>>

\* source order of spans
SpanBefore(p, q) ==
    \/ p[1] < q[1]
    \/ p[1] = q[1] /\ p[2] < q[2]
    \/ p[1] = q[1] /\ p[2] = q[2] /\ p[3] < q[3]

\* the first span of a non-empty set, in source order
FirstSpan(S) == CHOOSE p \in S : \A q \in S : q = p \/ SpanBefore(p, q)

(***************************************************************************)
(* The raw grammars the model validates.                                   *)
(***************************************************************************)
\* <S> ::= <E> | <S> <E> {n} ;  <E> ::= "a" | "b" ;
RepeatGrammar ==
    << Rule(NonTerminal("S", Untyped),
            << Alt(<<NT("E", Untyped)>>),
               AltN(<<NT("S", Untyped), NT("E", Untyped)>>, MinRepeat, MinRepeat) >>),
       Rule(NonTerminal("E", Untyped), << Alt(<<T(<<"a">>)>>), Alt(<<T(<<"b">>)>>) >>) >>

\* <S> ::= <A> <A> <A> ;  <A> ::= "a" {0} | "b" {0} ;
ExhaustGrammar ==
    << Rule(NonTerminal("S", Untyped),
            << Alt(<<NT("A", Untyped), NT("A", Untyped), NT("A", Untyped)>>) >>),
       Rule(NonTerminal("A", Untyped),
            << AltN(<<T(<<"a">>)>>, 0, 0), AltN(<<T(<<"b">>)>>, 0, 0) >>) >>

\* <S> ::= <E> ;
\* <E: "int">  ::= "1" | <E: "int"> "+" <E: "int"> {1} ;
\* <E: "bool"> ::= "t" | <E: "bool"> "&" <E: "bool"> {1} ;
TypedGrammar ==
    << Rule(NonTerminal("S", Untyped), << Alt(<<NT("E", Untyped)>>) >>),
       Rule(NonTerminal("E", "int"),
            << Alt(<<T(<<"1">>)>>),
               AltN(<<NT("E", "int"), T(<<"+">>), NT("E", "int")>>, 1, 1) >>),
       Rule(NonTerminal("E", "bool"),
            << Alt(<<T(<<"t">>)>>),
               AltN(<<NT("E", "bool"), T(<<"&">>), NT("E", "bool")>>, 1, 1) >>) >>

\* <S> ::= <E: "int"> | "a" ;  <E: "bool"> ::= "t" ;
MissingTypeGrammar ==
    << Rule(NonTerminal("S", Untyped),
            << Alt(<<NT("E", "int")>>), Alt(<<T(<<"a">>)>>) >>),
       Rule(NonTerminal("E", "bool"), << Alt(<<T(<<"t">>)>>) >>) >>

\* <E> ::= <S> ;  <S> ::= <E> ;  <E> ::= "?" ;      (test duplicated_def)
DuplicateGrammar ==
    << Rule(NonTerminal("E", Untyped), << Alt(<<NT("S", Untyped)>>) >>),
       Rule(NonTerminal("S", Untyped), << Alt(<<NT("E", Untyped)>>) >>),
       Rule(NonTerminal("E", Untyped), << Alt(<<T(<<"?">>)>>) >>) >>

\* <E: "int"> ::= "1" ;  <E: "int"> ::= "2" ;  <E> ::= <E: "int"> ;
TypedDuplicateGrammar ==
    << Rule(NonTerminal("E", "int"), << Alt(<<T(<<"1">>)>>) >>),
       Rule(NonTerminal("E", "int"), << Alt(<<T(<<"2">>)>>) >>),
       Rule(NonTerminal("E", Untyped), << Alt(<<NT("E", "int")>>) >>) >>

\* <E> ::= <S> ;                                     (test undefined_nt)
UndefinedGrammar ==
    << Rule(NonTerminal("E", Untyped), << Alt(<<NT("S", Untyped)>>) >>) >>

\* <S> ::= <X> <Y> | "a" ;
TwoUndefinedGrammar ==
    << Rule(NonTerminal("S", Untyped),
            << Alt(<<NT("X", Untyped), NT("Y", Untyped)>>), Alt(<<T(<<"a">>)>>) >>) >>

\* <E> ::= "a" {2, 1} ;                              (test invalid_repeat)
InvalidRepeatGrammar ==
    << Rule(NonTerminal("E", Untyped), << AltN(<<T(<<"a">>)>>, 2, 1) >>) >>

\* <S> ::= "a" {2, 1} | <X> ;  <E> ::= "b" {1, 0} ;
MixedErrorsGrammar ==
    << Rule(NonTerminal("S", Untyped),
            << AltN(<<T(<<"a">>)>>, 2, 1), Alt(<<NT("X", Untyped)>>) >>),
       Rule(NonTerminal("E", Untyped), << AltN(<<T(<<"b">>)>>, 1, 0) >>) >>

\* <S> ::= <A> | 2 "b" ;  <A> ::= 0 "a" ;
ZeroWeightGrammar ==
    << Rule(NonTerminal("S", Untyped),
            << Alt(<<NT("A", Untyped)>>), Alternative(2, <<T(<<"b">>)>>, Unlimited) >>),
       Rule(NonTerminal("A", Untyped),
            << Alternative(0, <<T(<<"a">>)>>, Unlimited) >>) >>

\* <S> ::= <A> <E> ;  <A> ::= "a" {1, 2} | "b" {0, 1} | ;  <E> ::= "a" {0} | "c" ;
SharedGrammar ==
    << Rule(NonTerminal("S", Untyped),
            << Alt(<<NT("A", Untyped), NT("E", Untyped)>>) >>),
       Rule(NonTerminal("A", Untyped),
            << AltN(<<T(<<"a">>)>>, 1, 2), AltN(<<T(<<"b">>)>>, 0, 1), Alt(<<>>) >>),
       Rule(NonTerminal("E", Untyped),
            << AltN(<<T(<<"a">>)>>, 0, 0), Alt(<<T(<<"c">>)>>) >>) >>

\* <S> ::= <A> <A> <E> ;  <A> ::= "a" {0, 1} ;  <E> ::= "a" {0} | "c" ;
CeilingGrammar ==
    << Rule(NonTerminal("S", Untyped),
            << Alt(<<NT("A", Untyped), NT("A", Untyped), NT("E", Untyped)>>) >>),
       Rule(NonTerminal("A", Untyped),
            << AltN(<<T(<<"a">>)>>, 0, 1) >>),
       Rule(NonTerminal("E", Untyped),
            << AltN(<<T(<<"a">>)>>, 0, 0), Alt(<<T(<<"c">>)>>) >>) >>

\* <S> ::= "a" | "b" <S> ;
LoopGrammar ==
    << Rule(NonTerminal("S", Untyped),
            << Alt(<<T(<<"a">>)>>), Alt(<<T(<<"b">>), NT("S", Untyped)>>) >>) >>

\* <E> ::= "Hello" | <A> ;  <W> ::= "World" ;  <A> ::= <B> ;  <B> ::= <A> ;
\* <C> ::= <W> ;                                     (test unreachable_nt)
UnreachableGrammar ==
    << Rule(NonTerminal("E", Untyped),
            << Alt(<<T(<<"H", "e", "l", "l", "o">>)>>), Alt(<<NT("A", Untyped)>>) >>),
       Rule(NonTerminal("W", Untyped), << Alt(<<T(<<"W", "o", "r", "l", "d">>)>>) >>),
       Rule(NonTerminal("A", Untyped), << Alt(<<NT("B", Untyped)>>) >>),
       Rule(NonTerminal("B", Untyped), << Alt(<<NT("A", Untyped)>>) >>),
       Rule(NonTerminal("C", Untyped), << Alt(<<NT("W", Untyped)>>) >>) >>

\* <E> ::= <D> | <F> ;  <C> ::= <D> ;  <D> ::= <C> ;  <F> ::= <G> ;
\* <G> ::= <F> | "T" ;                               (test trap_loop)
TrapLoopGrammar ==
    << Rule(NonTerminal("E", Untyped),
            << Alt(<<NT("D", Untyped)>>), Alt(<<NT("F", Untyped)>>) >>),
       Rule(NonTerminal("C", Untyped), << Alt(<<NT("D", Untyped)>>) >>),
       Rule(NonTerminal("D", Untyped), << Alt(<<NT("C", Untyped)>>) >>),
       Rule(NonTerminal("F", Untyped), << Alt(<<NT("G", Untyped)>>) >>),
       Rule(NonTerminal("G", Untyped),
            << Alt(<<NT("F", Untyped)>>), Alt(<<T(<<"T">>)>>) >>) >>

\* <no-trap-01> ::= <A> | "T" ;  <no-trap-02> ::= <A> | <term> ;
\* <term> ::= "T" ;  <A> ::= <B> ;  <B> ::= <C> ;  <C> ::= <A> ;   (test tri_loop)
TriLoopGrammar ==
    << Rule(NonTerminal("no-trap-01", Untyped),
            << Alt(<<NT("A", Untyped)>>), Alt(<<T(<<"T">>)>>) >>),
       Rule(NonTerminal("no-trap-02", Untyped),
            << Alt(<<NT("A", Untyped)>>), Alt(<<NT("term", Untyped)>>) >>),
       Rule(NonTerminal("term", Untyped), << Alt(<<T(<<"T">>)>>) >>),
       Rule(NonTerminal("A", Untyped), << Alt(<<NT("B", Untyped)>>) >>),
       Rule(NonTerminal("B", Untyped), << Alt(<<NT("C", Untyped)>>) >>),
       Rule(NonTerminal("C", Untyped), << Alt(<<NT("A", Untyped)>>) >>) >>

\* <A> ::= <B> ;  <B> ::= <A> ;                      (doc of check_trap_loop)
TwoLoopGrammar ==
    << Rule(NonTerminal("A", Untyped), << Alt(<<NT("B", Untyped)>>) >>),
       Rule(NonTerminal("B", Untyped), << Alt(<<NT("A", Untyped)>>) >>) >>

\* <S> ::= <B> ;  <A> ::= <B> | "a" ;  <B> ::= <B> <A> ;
HiddenTrapGrammar ==
    << Rule(NonTerminal("S", Untyped), << Alt(<<NT("B", Untyped)>>) >>),
       Rule(NonTerminal("A", Untyped),
            << Alt(<<NT("B", Untyped)>>), Alt(<<T(<<"a">>)>>) >>),
       Rule(NonTerminal("B", Untyped),
            << Alt(<<NT("B", Untyped), NT("A", Untyped)>>) >>) >>

\* <E: "int"> ::= <E: "bool"> ;  <E: "bool"> ::= <E: "int"> ;
TypedLoopGrammar ==
    << Rule(NonTerminal("E", "int"), << Alt(<<NT("E", "bool")>>) >>),
       Rule(NonTerminal("E", "bool"), << Alt(<<NT("E", "int")>>) >>) >>

\* <E: "int"> ::= <E: "bool"> ;  <E: "bool"> ::= <E: "int"> <S> ;
\* <S> ::= "a" | <E: "int"> ;
TypedTrapGrammar ==
    << Rule(NonTerminal("E", "int"), << Alt(<<NT("E", "bool")>>) >>),
       Rule(NonTerminal("E", "bool"),
            << Alt(<<NT("E", "int"), NT("S", Untyped)>>) >>),
       Rule(NonTerminal("S", Untyped),
            << Alt(<<T(<<"a">>)>>), Alt(<<NT("E", "int")>>) >>) >>

\* <S> ::= re("[l-n]") | re("(l|m)n") ;  <Keyword> ::= "m" | "ln" ;
PatternGrammar ==
    << Rule(NonTerminal("S", Untyped),
            << Alt(<<RE(Class(<< <<12, 14>> >>))>>),
               Alt(<<RE(Concat(<< Capture(Alternation(<< Literal(<<"l">>),
                                                         Literal(<<"m">>) >>)),
                                  Literal(<<"n">>) >>))>>) >>),
       Rule(NonTerminal("Keyword", Untyped),
            << Alt(<<T(<<"m">>)>>), Alt(<<T(<<"l", "n">>)>>) >>) >>

\* <S> ::= "x" re("m") ;  <Keyword> ::= "m" ;
StuckPatternGrammar ==
    << Rule(NonTerminal("S", Untyped),
            << Alt(<<T(<<"x">>), RE(Literal(<<"m">>))>>) >>),
       Rule(NonTerminal("Keyword", Untyped), << Alt(<<T(<<"m">>)>>) >>) >>

\* <S> ::= re("a{1,2}") | re("a{4,}") | re("a{6,}") ;
RepetitionGrammar ==
    << Rule(NonTerminal("S", Untyped),
            << Alt(<<RE(Repetition(1, 2, Literal(<<"a">>)))>>),
               Alt(<<RE(Repetition(4, NoMax, Literal(<<"a">>)))>>),
               Alt(<<RE(Repetition(6, NoMax, Literal(<<"a">>)))>>) >>) >>

\* <S> ::= re("^a") ;
LookGrammar ==
    << Rule(NonTerminal("S", Untyped),
            << Alt(<<RE(Concat(<< Look, Literal(<<"a">>) >>))>>) >>) >>

\* `{n,}` means `{n, oo}`: a limit whose max is the largest usize
UsizeMax == 2147483647

OpenLimit(min) == Limited(min, UsizeMax)

\* <S> ::= <A> <B> <S> | <B> ;  <A> ::= "a" {0,} | "c" ;  <B> ::= "a" {0} | "b" ;
OpenLimitGrammar ==
    << Rule(NonTerminal("S", Untyped),
            << Alt(<<NT("A", Untyped), NT("B", Untyped), NT("S", Untyped)>>),
               Alt(<<NT("B", Untyped)>>) >>),
       Rule(NonTerminal("A", Untyped),
            << Alternative(1, <<T(<<"a">>)>>, OpenLimit(0)), Alt(<<T(<<"c">>)>>) >>),
       Rule(NonTerminal("B", Untyped),
            << AltN(<<T(<<"a">>)>>, 0, 0), Alt(<<T(<<"b">>)>>) >>) >>

\* the grammar with every limit `{0,}` replaced by no limit
Relaxed(rules) ==
    [r \in 1..Len(rules) |->
        [rules[r] EXCEPT !.production =
            [a \in 1..Len(rules[r].production) |->
                IF rules[r].production[a].invoke_limit = OpenLimit(0)
                THEN [rules[r].production[a] EXCEPT !.invoke_limit = Unlimited]
                ELSE rules[r].production[a]]]]

RawGrammars ==
    { LoopGrammar, RepeatGrammar, ExhaustGrammar, TypedGrammar, MissingTypeGrammar,
      DuplicateGrammar, TypedDuplicateGrammar, UndefinedGrammar,
      TwoUndefinedGrammar, InvalidRepeatGrammar, MixedErrorsGrammar,
      ZeroWeightGrammar, SharedGrammar, CeilingGrammar, UnreachableGrammar, TrapLoopGrammar,
      TriLoopGrammar, TwoLoopGrammar, HiddenTrapGrammar,
      TypedLoopGrammar, TypedTrapGrammar, PatternGrammar, StuckPatternGrammar,
      RepetitionGrammar, LookGrammar }

\* the start identifiers a caller passes to generate
StartNames == {"S", "E", "A"}

(***************************************************************************)
(* Validation: RawGrammar::check_undefined, check_duplicate, check_repeats,*)
(* to_checked, and App::lint.                                              *)
(***************************************************************************)
NoSpan == <<0, 0, 0>>

\* Ok(..) and Err(Error::kind { span }) of a check
Ok == [kind |-> "Ok", span |-> NoSpan]

Err(kind, span) == [kind |-> kind, span |-> span]

\* the positions of the alternatives and of the symbols of a grammar
AltPositions(rules) ==
    UNION { { AltSpan(r, a) : a \in 1..Len(rules[r].production) } :
            r \in 1..Len(rules) }

SymPositions(rules) ==
    UNION { { SymSpan(p[1], p[2], s) :
              s \in 1..Len(rules[p[1]].production[p[2]].symbols) } :
            p \in AltPositions(rules) }

SymAt(rules, p) == rules[p[1]].production[p[2]].symbols[p[3]]

AltAt(rules, p) == rules[p[1]].production[p[2]]

\* the identifiers that have a rule: r.lhs.as_str() of every rule
Defined(rules) == { rules[r].lhs.name : r \in 1..Len(rules) }

\* the references whose identifier has no rule
UndefinedRefs(rules) ==
    { p \in SymPositions(rules) :
        /\ SymAt(rules, p).kind = "NonTerminal"
        /\ SymAt(rules, p).name \notin Defined(rules) }

\* the first undefined reference met in rule, alternative, symbol order
check_undefined(rules) ==
    IF UndefinedRefs(rules) = {}
    THEN Ok
    ELSE Err("UndefinedNonTerminal", FirstSpan(UndefinedRefs(rules)))

\* "TODO: need to rework": accepts every grammar
check_duplicate(rules) == Ok

\* a range test that also refuses min = max
InvalidRangesStrict(rules) ==
    { p \in AltPositions(rules) :
        /\ AltAt(rules, p).invoke_limit.limited
        /\ AltAt(rules, p).invoke_limit.min >= AltAt(rules, p).invoke_limit.max }

\* the alternatives with a limit whose min exceeds its max
InvalidRanges(rules) ==
    { p \in AltPositions(rules) :
        /\ AltAt(rules, p).invoke_limit.limited
        /\ AltAt(rules, p).invoke_limit.min > AltAt(rules, p).invoke_limit.max }

check_repeats(rules) ==
    IF InvalidRanges(rules) = {}
    THEN Ok
    ELSE Err("InvalidRepeatRange", FirstSpan(InvalidRanges(rules)))

\* IndexMap::insert: a new key is appended, a known key keeps its place and
\* gets the new value
IndexMapInsert(map, key, value) ==
    IF \E i \in 1..Len(map) : map[i].lhs = key
    THEN [i \in 1..Len(map) |->
            IF map[i].lhs = key THEN Rule(key, value) ELSE map[i]]
    ELSE Append(map, Rule(key, value))

RECURSIVE InsertAll(_, _, _)
InsertAll(map, rules, r) ==
    IF r > Len(rules)
    THEN map
    ELSE InsertAll(IndexMapInsert(map, rules[r].lhs, rules[r].production), rules, r + 1)

\* check_undefined()?.check_duplicate()?.check_repeats()?: the first error
to_checked_result(rules) ==
    IF check_undefined(rules).kind # "Ok" THEN check_undefined(rules)
    ELSE IF check_duplicate(rules).kind # "Ok" THEN check_duplicate(rules)
    ELSE check_repeats(rules)

\* to_checked: the checks, then every rule is inserted into the IndexMap
to_checked(rules) ==
    IF to_checked_result(rules).kind # "Ok"
    THEN [result |-> to_checked_result(rules), rules |-> <<>>]
    ELSE [result |-> Ok, rules |-> InsertAll(<<>>, rules, 1)]

\* a lint that stops at the first failing check
FirstReportOnly(rules) ==
    IF to_checked_result(rules).kind = "Ok" THEN <<>> ELSE << to_checked_result(rules) >>

\* App::lint: the three checks are run and every error is reported; the
\* result is that of to_checked
LintReports(rules) ==
    SelectSeq(<< check_undefined(rules), check_duplicate(rules), check_repeats(rules) >>,
              LAMBDA e : e.kind # "Ok")

(***************************************************************************)
(* Derivation state: State::tracking, Alternative::id and the limit tests. *)
(***************************************************************************)
\* the characters of an identifier or type tag: those of more than one
\* character are listed, any other name is its own single character
Chars(name) ==
    CASE name = "int" -> <<"i", "n", "t">>
      [] name = "bool" -> <<"b", "o", "o", "l">>
      [] name = "Keyword" -> <<"K", "e", "y", "w", "o", "r", "d">>
      [] OTHER -> <<name>>

\* what a symbol feeds the hasher: the string of a terminal; the name of a
\* reference and then its type tag, nothing for Untyped; the variant itself
\* is not hashed, so the terminal "E" and the reference <E> hash alike
SymbolHash(sym) ==
    CASE sym.kind = "Terminal" -> << sym.lit >>
      [] sym.kind = "NonTerminal" ->
           IF sym.ty = Untyped THEN << Chars(sym.name) >>
           ELSE << Chars(sym.name), Chars(sym.ty) >>
      [] OTHER -> << sym.re >>

RECURSIVE HashAll(_)
HashAll(symbols) ==
    IF Len(symbols) = 0 THEN <<>>
    ELSE SymbolHash(Head(symbols)) \o HashAll(Tail(symbols))

\* an identity that tells apart equal symbol sequences of different limits
IdWithLimit(alt) == << Len(alt.symbols), HashAll(alt.symbols), alt.invoke_limit >>

\* Alternative::id: the hash of the symbol sequence alone (its length, then
\* every symbol), by a hasher with fixed keys; equal sequences have equal
\* ids, in whatever rule they occur
id(alt) == << Len(alt.symbols), HashAll(alt.symbols) >>

\* State::new: nothing is tracked
NoTracking == <<>>

\* State::count: an id that was never tracked counts 0
count(tracking, altId) ==
    IF altId \in DOMAIN tracking THEN tracking[altId] ELSE 0

\* a tracking that counts a selection twice
TrackTwice(tracking, altId) ==
    [x \in DOMAIN tracking \cup {altId} |->
        IF x = altId THEN count(tracking, altId) + 2 ELSE tracking[x]]

\* State::track
track(tracking, altId) ==
    [x \in DOMAIN tracking \cup {altId} |->
        IF x = altId THEN count(tracking, altId) + 1 ELSE tracking[x]]

has_invoke_limits(alt) == alt.invoke_limit.limited

exceeds_invoke_limit(alt, tracking) ==
    IF ~alt.invoke_limit.limited
    THEN FALSE
    ELSE count(tracking, id(alt)) > alt.invoke_limit.max

\* a floor test that is off by one
lose_invoke_limit_early(alt, tracking) ==
    IF ~alt.invoke_limit.limited
    THEN FALSE
    ELSE count(tracking, id(alt)) + 1 < alt.invoke_limit.min

lose_invoke_limit(alt, tracking) ==
    IF ~alt.invoke_limit.limited
    THEN FALSE
    ELSE count(tracking, id(alt)) < alt.invoke_limit.min

(***************************************************************************)
(* WeightedProduction::choose_by_state.                                    *)
(***************************************************************************)
Indices(n) == [i \in 1..n |-> i]

\* the alternatives under their floor, in order
UnderFloor(alts, tracking) ==
    SelectSeq(Indices(Len(alts)), LAMBDA i : lose_invoke_limit(alts[i], tracking))

\* the alternatives that have not exceeded their ceiling, in order
NotExceeded(alts, tracking) ==
    SelectSeq(Indices(Len(alts)), LAMBDA i : ~exceeds_invoke_limit(alts[i], tracking))

\* candidates chosen without regard to the floors
CandidatesIgnoringFloor(alts, tracking) == NotExceeded(alts, tracking)

\* the candidates: those under their floor if there is one, else those that
\* have not exceeded their ceiling
Candidates(alts, tracking) ==
    IF \E i \in 1..Len(alts) : lose_invoke_limit(alts[i], tracking)
    THEN UnderFloor(alts, tracking)
    ELSE NotExceeded(alts, tracking)

RECURSIVE Sum(_)
Sum(weights) ==
    IF Len(weights) = 0 THEN 0 ELSE weights[1] + Sum(Tail(weights))

\* a uniform draw below n from the raw value r of the RNG
Below(r, n) == r % n

\* WeightedIndex::sample: the first index whose cumulative weight exceeds a
\* uniform draw below the total weight
WeightedIndexSample(weights, r) ==
    CHOOSE i \in 1..Len(weights) :
        /\ Sum(SubSeq(weights, 1, i)) > Below(r, Sum(weights))
        /\ \A j \in 1..(i - 1) : Sum(SubSeq(weights, 1, j)) <= Below(r, Sum(weights))

\* a choice that is never tracked
TrackNothing(alt, tracking) == tracking

\* the count of the chosen alternative is tracked only if it has a limit
TrackChosen(alt, tracking) ==
    IF has_invoke_limits(alt) THEN track(tracking, id(alt)) ELSE tracking

\* Err(NoCandidatesAvailable { name }) when there is no candidate or
\* WeightedIndex::new fails (no weight above zero); else the chosen alternative
choose_by_state(alts, tracking, nt_name, r) ==
    LET candidates == Candidates(alts, tracking)
        weights == [i \in 1..Len(candidates) |-> alts[candidates[i]].weight]
    IN  IF Len(candidates) = 0 \/ Sum(weights) = 0
        THEN [ok |-> FALSE, name |-> nt_name, alt |-> 0,
              tracking |-> tracking, syms |-> <<>>]
        ELSE LET idx == WeightedIndexSample(weights, r)
                 chosen == candidates[idx]
             IN  [ok |-> TRUE, name |-> nt_name, alt |-> chosen,
                  tracking |-> TrackChosen(alts[chosen], tracking),
                  syms |-> alts[chosen].symbols]

(***************************************************************************)
(* Regex::helper and Regex::generate.  A sample reads the raw values ds of *)
(* the RNG from left to right, one for each gen_range.                     *)
(***************************************************************************)
\* rep.max.unwrap_or(5)
RepetitionCap == 5

\* pick.to_string()
Chr(c) == << Alphabet[c] >>

\* what helper gives: a string and the raw values left, or a panic
Sampled(str, ds) == [fault |-> "none", s |-> str, ds |-> ds]

Fault(fault, ds) == [fault |-> fault, s |-> NoStr, ds |-> ds]

\* the upper end of rep.min..=rep.max.unwrap_or(5)
RepetitionMax(re) == IF re.max = NoMax THEN RepetitionCap ELSE re.max

RECURSIVE helper(_, _), helperAll(_, _)
\* gen_range panics on an empty range; a look-around is todo!()
helper(re, ds) ==
    CASE re.kind = "Empty" -> Sampled(NoStr, ds)
      [] re.kind = "Literal" -> Sampled(re.lit, ds)
      [] re.kind = "Repetition" ->
            IF re.min > RepetitionMax(re)
            THEN Fault("EmptyRange", ds)
            ELSE LET k == re.min + Below(Head(ds), RepetitionMax(re) - re.min + 1)
                 IN  helperAll([i \in 1..k |-> re.subs[1]], Tail(ds))
      [] re.kind = "Concat" -> helperAll(re.subs, ds)
      [] re.kind = "Alternation" ->
            IF Len(re.subs) = 0
            THEN Fault("EmptyRange", ds)
            ELSE helper(re.subs[Below(Head(ds), Len(re.subs)) + 1], Tail(ds))
      [] re.kind = "Class" ->
            IF Len(re.ranges) = 0
            THEN Fault("EmptyRange", ds)
            ELSE LET range == re.ranges[Below(Head(ds), Len(re.ranges)) + 1]
                     pick == range[1] + Below(Head(Tail(ds)), range[2] - range[1] + 1)
                 IN  Sampled(Chr(pick), Tail(Tail(ds)))
      [] re.kind = "Look" -> Fault("Look", ds)
      [] OTHER -> helper(re.subs[1], ds)

\* the samples of a sequence of patterns, concatenated
helperAll(res, ds) ==
    IF Len(res) = 0
    THEN Sampled(NoStr, ds)
    ELSE LET first == helper(Head(res), ds)
         IN  IF first.fault # "none"
             THEN first
             ELSE LET rest == helperAll(Tail(res), first.ds)
                  IN  IF rest.fault # "none"
                      THEN rest
                      ELSE Sampled(first.s \o rest.s, rest.ds)

\* one pass of the loop of Regex::generate: a sample that is one of the
\* terminals is thrown away and the loop goes on
generate(re, ds, terminals) ==
    LET sample == helper(re, ds)
    IN  IF sample.fault # "none"
        THEN [tag |-> "Panic", s |-> NoStr, fault |-> sample.fault]
        ELSE IF sample.s \in terminals
        THEN [tag |-> "Collision", s |-> sample.s, fault |-> "none"]
        ELSE [tag |-> "Terminal", s |-> sample.s, fault |-> "none"]

\* a pattern that is checked against nothing
no_terminals(rules) == {}

\* the literal terminals of all rules of the checked grammar
non_re_terminals(rules) ==
    { SymAt(rules, p).lit :
        p \in { q \in SymPositions(rules) : SymAt(rules, q).kind = "Terminal" } }

(***************************************************************************)
(* CheckedGrammar::reduce.                                                 *)
(***************************************************************************)
\* the keys of a HashMap: their order depends on the hasher's seed
RuleKeysBySeed(rules, seed) ==
    [i \in 1..Len(rules) |-> IF seed = 0 THEN i ELSE Len(rules) + 1 - i]

\* IndexMap::keys: the keys in insertion order, whatever the hasher's seed
RuleKeys(rules, seed) == [i \in 1..Len(rules) |-> i]

\* the rules an untyped reference may expand to: k.name == s.name
UntypedCandidates(rules, name, seed) ==
    SelectSeq(RuleKeys(rules, seed), LAMBDA i : rules[i].lhs.name = name)

\* a lookup that compares the identifier alone
RuleByName(rules, nt) ==
    IF \E i \in 1..Len(rules) : rules[i].lhs.name = nt.name
    THEN CHOOSE i \in 1..Len(rules) :
            /\ rules[i].lhs.name = nt.name
            /\ \A j \in (i + 1)..Len(rules) : rules[j].lhs.name # nt.name
    ELSE 0

\* the rule a typed reference expands to: rules.get(&s), 0 when there is none
ExactRule(rules, nt) ==
    IF \E i \in 1..Len(rules) : rules[i].lhs = nt
    THEN CHOOSE i \in 1..Len(rules) : rules[i].lhs = nt
    ELSE 0

\* the rule a reference expands to, 0 when none is found (the code panics):
\* an untyped reference picks one of its candidates uniformly
ResolveRule(rules, sym, r, seed) ==
    IF sym.ty = Untyped
    THEN LET candidates == UntypedCandidates(rules, sym.name, seed)
         IN  IF Len(candidates) = 0
             THEN 0
             ELSE candidates[Below(r, Len(candidates)) + 1]
    ELSE ExactRule(rules, NonTerminal(sym.name, sym.ty))

\* the name reduce hands to choose_by_state: that of the reference
NtNameArg(sym) == sym.name

NoChoice ==
    [ok |-> FALSE, name |-> "", alt |-> 0, tracking |-> NoTracking, syms |-> <<>>]

\* the outcome of reducing one symbol: a terminal, the symbols of a chosen
\* alternative, an error, or a panic
reduce(rules, sym, tracking, r1, r2, seed) ==
    IF sym.kind = "Terminal"
    THEN [tag |-> "Terminal", s |-> sym.lit, rule |-> 0, choice |-> NoChoice]
    ELSE LET rule == ResolveRule(rules, sym, r1, seed)
         IN  IF rule = 0
             THEN [tag |-> "Panic", s |-> NoStr, rule |-> 0, choice |-> NoChoice]
             ELSE LET choice == choose_by_state(rules[rule].production, tracking,
                                                NtNameArg(sym), r2)
                  IN  [tag |-> IF choice.ok THEN "NonTerminal" ELSE "Err",
                       s |-> NoStr, rule |-> rule, choice |-> choice]

\* the Regex arm of reduce, up to the end of one pass of the loop of generate
reduce_regex(rules, sym, ds) == generate(sym.re, ds, non_re_terminals(rules))

(***************************************************************************)
(* Generator::generate: the locals of one call (State, stack, buf) and its *)
(* outcome.  selected and last are history: how often each alternative of  *)
(* the checked grammar was chosen in this call, and what the latest        *)
(* reduction did (resampled: a sample of the pattern had been thrown       *)
(* away).                                                                  *)
(***************************************************************************)
\* the seeds a HashMap's RandomState can get
HashSeeds == {0, 1}

NoLast ==
    [tag |-> "none", sym |-> T(NoStr), rule |-> 0, alt |-> 0,
     underfloor |-> {}, exceeded |-> {}, fault |-> "none", s |-> NoStr,
     resampled |-> FALSE]

\* before the first call
Idle ==
    [start |-> "", stack |-> <<>>, buf |-> <<>>, tracking |-> NoTracking,
     status |-> "idle", err |-> "none", errName |-> "", out |-> NoStr, steps |-> 0,
     selected |-> <<>>, last |-> NoLast, hashSeed |-> 0]

\* State::new(rng), buf = [], stack = [NonTerminal::untyped(start)]
NewDerivation(rules, startName, seed) ==
    [start |-> startName, stack |-> << NT(startName, Untyped) >>, buf |-> <<>>,
     tracking |-> NoTracking, status |-> "running", err |-> "none", errName |-> "",
     out |-> NoStr, steps |-> 0,
     selected |-> [p \in AltPositions(rules) |-> 0],
     last |-> NoLast, hashSeed |-> seed]

\* the alternatives of a rule that have a limit and were chosen less often
\* than its min
UnderFloorSet(rules, rule, tracking) ==
    IF rule = 0
    THEN {}
    ELSE { i \in 1..Len(rules[rule].production) :
             LET alt == rules[rule].production[i]
             IN  /\ alt.invoke_limit.limited
                 /\ count(tracking, id(alt)) < alt.invoke_limit.min }

\* the alternatives of a rule that have a limit and were chosen more often
\* than its max
ExceededSet(rules, rule, tracking) ==
    IF rule = 0
    THEN {}
    ELSE { i \in 1..Len(rules[rule].production) :
             LET alt == rules[rule].production[i]
             IN  /\ alt.invoke_limit.limited
                 /\ count(tracking, id(alt)) > alt.invoke_limit.max }

\* buf.join(" ")
RECURSIVE Join(_)
Join(buf) ==
    IF Len(buf) = 0 THEN NoStr
    ELSE IF Len(buf) = 1 THEN buf[1]
    ELSE buf[1] \o <<" ">> \o Join(Tail(buf))

\* the same turn with the symbols of the chosen alternative put behind the
\* pending ones
ReduceStepBehind(rules, d, r1, r2) ==
    LET sym == Head(d.stack)
        rest == Tail(d.stack)
        o == reduce(rules, sym, d.tracking, r1, r2, d.hashSeed)
        seen == [tag |-> o.tag, sym |-> sym, rule |-> o.rule, alt |-> o.choice.alt,
                 underfloor |-> UnderFloorSet(rules, o.rule, d.tracking),
                 exceeded |-> ExceededSet(rules, o.rule, d.tracking),
                 fault |-> IF o.tag = "Panic" THEN "NoRule" ELSE "none", s |-> o.s,
                 resampled |-> FALSE]
    IN  CASE o.tag = "Terminal" ->
               [d EXCEPT !.stack = rest, !.buf = Append(d.buf, o.s),
                         !.steps = @ + 1, !.last = seen]
          [] o.tag = "NonTerminal" ->
               [d EXCEPT !.stack = rest \o o.choice.syms,
                         !.tracking = o.choice.tracking,
                         !.selected[AltSpan(o.rule, o.choice.alt)] = @ + 1,
                         !.steps = @ + 1, !.last = seen]
          [] o.tag = "Err" ->
               [d EXCEPT !.stack = <<>>, !.buf = <<>>, !.status = "Err",
                         !.err = "NoCandidatesAvailable", !.errName = o.choice.name,
                         !.steps = @ + 1, !.last = seen]
          [] OTHER ->
               [d EXCEPT !.stack = <<>>, !.buf = <<>>, !.status = "Panic",
                         !.steps = @ + 1, !.last = seen]

\* one turn of the loop: stack.remove(0) is reduced; a terminal goes to buf,
\* the symbols of a chosen alternative go in front of the stack, an error
\* ends the call (`?`), a panic ends the program
ReduceStep(rules, d, r1, r2) ==
    LET sym == Head(d.stack)
        rest == Tail(d.stack)
        o == reduce(rules, sym, d.tracking, r1, r2, d.hashSeed)
        seen == [tag |-> o.tag, sym |-> sym, rule |-> o.rule, alt |-> o.choice.alt,
                 underfloor |-> UnderFloorSet(rules, o.rule, d.tracking),
                 exceeded |-> ExceededSet(rules, o.rule, d.tracking),
                 fault |-> IF o.tag = "Panic" THEN "NoRule" ELSE "none", s |-> o.s,
                 resampled |-> FALSE]
    IN  CASE o.tag = "Terminal" ->
               [d EXCEPT !.stack = rest, !.buf = Append(d.buf, o.s),
                         !.steps = @ + 1, !.last = seen]
          [] o.tag = "NonTerminal" ->
               [d EXCEPT !.stack = o.choice.syms \o rest,
                         !.tracking = o.choice.tracking,
                         !.selected[AltSpan(o.rule, o.choice.alt)] = @ + 1,
                         !.steps = @ + 1, !.last = seen]
          [] o.tag = "Err" ->
               [d EXCEPT !.stack = <<>>, !.buf = <<>>, !.status = "Err",
                         !.err = "NoCandidatesAvailable", !.errName = o.choice.name,
                         !.steps = @ + 1, !.last = seen]
          [] OTHER ->
               [d EXCEPT !.stack = <<>>, !.buf = <<>>, !.status = "Panic",
                         !.steps = @ + 1, !.last = seen]

\* a turn of the loop on a pattern, up to the end of one pass of the loop of
\* Regex::generate: the sample goes to buf, or it is one of the terminals and
\* the pattern is sampled again, or the sampler panics
SampleStep(rules, d, ds) ==
    LET sym == Head(d.stack)
        rest == Tail(d.stack)
        o == reduce_regex(rules, sym, ds)
        seen == [tag |-> o.tag, sym |-> sym, rule |-> 0, alt |-> 0,
                 underfloor |-> {}, exceeded |-> {}, fault |-> o.fault, s |-> o.s,
                 resampled |-> o.tag = "Collision" \/ d.last.tag = "Collision"]
    IN  CASE o.tag = "Terminal" ->
               [d EXCEPT !.stack = rest, !.buf = Append(d.buf, o.s),
                         !.steps = @ + 1, !.last = seen]
          [] o.tag = "Collision" ->
               [d EXCEPT !.last = seen]
          [] OTHER ->
               [d EXCEPT !.stack = <<>>, !.buf = <<>>, !.status = "Panic",
                         !.steps = @ + 1, !.last = seen]

\* the loop ends on an empty stack: Ok(buf.join(" "))
ReturnOk(d) == [d EXCEPT !.status = "Ok", !.out = Join(d.buf)]

\* what a call gave its caller
Outcome(d) == [status |-> d.status, out |-> d.out, errName |-> d.errName]

Finished(d) == d.status \in {"Ok", "Err", "Panic"}

\* the results so far, with that of a call that has just ended
Collect(results, d) == IF Finished(d) THEN Append(results, Outcome(d)) ELSE results

(***************************************************************************)
(* TreeGenerator::generate and generate_tree.  The recursion is kept as a  *)
(* sequence of frames, the innermost call last: a frame holds the name of  *)
(* the branch it builds, the symbols of the chosen alternative that are    *)
(* still to be generated, and the subtrees built so far.  The first frame  *)
(* is the call of generate, which waits for the tree of the start symbol.  *)
(***************************************************************************)
\* ParseTree::leaf(Terminal(s)) and ParseTree::branch(name, subtrees)
Leaf(s) == [leaf |-> TRUE, name |-> "", value |-> s, children |-> <<>>]

Branch(name, subtrees) ==
    [leaf |-> FALSE, name |-> name, value |-> NoStr, children |-> subtrees]

NoTree == Leaf(NoStr)

Frame(name, pending, children) ==
    [name |-> name, pending |-> pending, children |-> children]

\* the subtrees of the symbols from the last to the first
PushFrameReversed(frames, name, syms) ==
    Append(frames, Frame(name, [i \in 1..Len(syms) |-> syms[Len(syms) + 1 - i]], <<>>))

\* syms.into_iter().map(|sym| self.generate_tree(sym, state)): the calls for
\* the symbols of the alternative, from the first to the last
PushFrame(frames, name, syms) == Append(frames, Frame(name, syms, <<>>))

\* a subtree is handed to the call that waits for it
GiveSubtree(frames, subtree) ==
    [frames EXCEPT ![Len(frames)].children = Append(@, subtree)]

\* the calls that have generated all their symbols return their branch
RECURSIVE Unwind(_)
Unwind(frames) ==
    IF Len(frames) > 1 /\ Len(frames[Len(frames)].pending) = 0
    THEN Unwind(GiveSubtree(SubSeq(frames, 1, Len(frames) - 1),
                            Branch(frames[Len(frames)].name,
                                   frames[Len(frames)].children)))
    ELSE frames

\* the symbol of the next call of generate_tree, taken off its frame
NextSymbol(frames) == Head(frames[Len(frames)].pending)

TakeSymbol(frames) == [frames EXCEPT ![Len(frames)].pending = Tail(@)]

\* before the first call
IdleTree ==
    [status |-> "idle", frames |-> <<>>, tracking |-> NoTracking, errName |-> "",
     result |-> NoTree, steps |-> 0, last |-> NoLast, hashSeed |-> 0]

\* generate: State::new(rng), then generate_tree(start, state)
NewTree(startName, seed) ==
    [status |-> "running",
     frames |-> << Frame("", << NT(startName, Untyped) >>, <<>>) >>,
     tracking |-> NoTracking, errName |-> "", result |-> NoTree, steps |-> 0,
     last |-> NoLast, hashSeed |-> seed]

\* whether a call of generate_tree is to be made, on a pattern or not
TreeAtPattern(t) ==
    /\ t.status = "running"
    /\ t.steps < MaxSteps
    /\ Len(Unwind(t.frames)[Len(Unwind(t.frames))].pending) > 0
    /\ NextSymbol(Unwind(t.frames)).kind = "Regex"

TreeAtSymbol(t) ==
    /\ t.status = "running"
    /\ t.steps < MaxSteps
    /\ Len(Unwind(t.frames)[Len(Unwind(t.frames))].pending) > 0
    /\ NextSymbol(Unwind(t.frames)).kind # "Regex"

\* generate_tree(symbol, state): reduce, then a leaf, or a frame for the
\* symbols of the chosen alternative; an error is passed up by `?`
TreeStep(rules, t, r1, r2) ==
    LET frames == Unwind(t.frames)
        sym == NextSymbol(frames)
        o == reduce(rules, sym, t.tracking, r1, r2, t.hashSeed)
        seen == [tag |-> o.tag, sym |-> sym, rule |-> o.rule, alt |-> o.choice.alt,
                 underfloor |-> UnderFloorSet(rules, o.rule, t.tracking),
                 exceeded |-> ExceededSet(rules, o.rule, t.tracking),
                 fault |-> IF o.tag = "Panic" THEN "NoRule" ELSE "none", s |-> o.s,
                 resampled |-> FALSE]
    IN  CASE o.tag = "Terminal" ->
               [t EXCEPT !.frames = GiveSubtree(TakeSymbol(frames), Leaf(o.s)),
                         !.steps = @ + 1, !.last = seen]
          [] o.tag = "NonTerminal" ->
               [t EXCEPT !.frames = PushFrame(TakeSymbol(frames), sym.name, o.choice.syms),
                         !.tracking = o.choice.tracking,
                         !.steps = @ + 1, !.last = seen]
          [] o.tag = "Err" ->
               [t EXCEPT !.frames = <<>>, !.status = "Err", !.errName = o.choice.name,
                         !.steps = @ + 1, !.last = seen]
          [] OTHER ->
               [t EXCEPT !.frames = <<>>, !.status = "Panic",
                         !.steps = @ + 1, !.last = seen]

\* generate_tree on a pattern, up to the end of one pass of the loop of
\* Regex::generate
TreeSampleStep(rules, t, ds) ==
    LET frames == Unwind(t.frames)
        sym == NextSymbol(frames)
        o == reduce_regex(rules, sym, ds)
        seen == [tag |-> o.tag, sym |-> sym, rule |-> 0, alt |-> 0,
                 underfloor |-> {}, exceeded |-> {}, fault |-> o.fault, s |-> o.s,
                 resampled |-> o.tag = "Collision" \/ t.last.tag = "Collision"]
    IN  CASE o.tag = "Terminal" ->
               [t EXCEPT !.frames = GiveSubtree(TakeSymbol(frames), Leaf(o.s)),
                         !.steps = @ + 1, !.last = seen]
          [] o.tag = "Collision" ->
               [t EXCEPT !.frames = frames, !.last = seen]
          [] OTHER ->
               [t EXCEPT !.frames = <<>>, !.status = "Panic",
                         !.steps = @ + 1, !.last = seen]

\* whether the call for the start symbol has returned its tree
TreeDone(t) ==
    /\ t.status = "running"
    /\ Len(Unwind(t.frames)) = 1
    /\ Len(Unwind(t.frames)[1].pending) = 0

\* generate returns the tree of the start symbol
TreeReturnOk(t) ==
    [t EXCEPT !.status = "Ok", !.frames = <<>>,
              !.result = Unwind(t.frames)[1].children[1]]

(***************************************************************************)
(* Graph analysis: RawGrammar::graph, GrammarGraph::check_unused,          *)
(* check_trap_loop and is_trap_loop, and App::strict_lint.                 *)
(***************************************************************************)
\* graph.add_node(rule.lhs): one node for every rule, node n for rule n,
\* weighted with the identifier of the rule
NodeWeight(rules, n) == rules[n].lhs.name

\* nodes: the HashMap collected from the (identifier, node) pairs; a later
\* pair replaces an earlier one with the same identifier
NodeIndex(rules, name) ==
    CHOOSE n \in 1..Len(rules) :
        /\ rules[n].lhs.name = name
        /\ \A k \in (n + 1)..Len(rules) : rules[k].lhs.name # name

\* graph.add_edge(nodes[lhs], nodes[name]) for every reference
GraphEdges(rules) ==
    { << NodeIndex(rules, rules[p[1]].lhs.name), NodeIndex(rules, SymAt(rules, p).name) >> :
        p \in { q \in SymPositions(rules) : SymAt(rules, q).kind = "NonTerminal" } }

\* RawGrammar::graph; nodes[name] of an identifier without a rule panics
graph(rules) ==
    IF UndefinedRefs(rules) # {}
    THEN [panic |-> TRUE, nodes |-> {}, edges |-> {}]
    ELSE [panic |-> FALSE, nodes |-> 1..Len(rules), edges |-> GraphEdges(rules)]

\* a traversal that stops at the direct successors
DfsOneStep(edges, visited) ==
    visited \cup { e[2] : e \in { f \in edges : f[1] \in visited } }

\* Dfs::new(graph, start) run to its end: the nodes reached from visited
RECURSIVE Dfs(_, _)
Dfs(edges, visited) ==
    LET next == visited \cup { e[2] : e \in { f \in edges : f[1] \in visited } }
    IN  IF next = visited THEN visited ELSE Dfs(edges, next)

\* the rules, in order, whose identifier is in names
RulesNamed(rules, names) ==
    SelectSeq(Indices(Len(rules)), LAMBDA r : rules[r].lhs.name \in names)

UnusedOk == [kind |-> "Ok", spans |-> <<>>]

GraphPanic == [kind |-> "Panic", spans |-> <<>>]

\* check_unused: the identifiers no node reached from nodes[start] carries;
\* the spans of all their rules, in rule order.  A start without a rule panics.
check_unused(rules, g, start) ==
    IF start \notin Defined(rules)
    THEN GraphPanic
    ELSE LET reachable == { NodeWeight(rules, n) :
                              n \in Dfs(g.edges, {NodeIndex(rules, start)}) }
             unreachable == Defined(rules) \ reachable
             unused == RulesNamed(rules, unreachable)
         IN  IF unreachable # {}
             THEN [kind |-> "UnreachableRules",
                   spans |-> [i \in 1..Len(unused) |-> RuleSpan(unused[i])]]
             ELSE UnusedOk

\* petgraph::algo::tarjan_scc: the strongly connected components
SccOf(g, n) == { k \in Dfs(g.edges, {n}) : n \in Dfs(g.edges, {k}) }

tarjan_scc(g) == { SccOf(g, n) : n \in g.nodes }

\* an alternative escapes when all its symbols do: a terminal or a pattern
\* always, a reference when its identifier is outside the component or known
\* to escape
alt_can_escape(alt, scc_names, can_escape) ==
    \A i \in 1..Len(alt.symbols) :
        IF alt.symbols[i].kind # "NonTerminal"
        THEN TRUE
        ELSE alt.symbols[i].name \notin scc_names \/ alt.symbols[i].name \in can_escape

rule_can_escape(rule, scc_names, can_escape) ==
    \E a \in 1..Len(rule.production) :
        alt_can_escape(rule.production[a], scc_names, can_escape)

\* `for rule in &scc_rules`: one pass over the rules of the component
RECURSIVE EscapePass(_, _, _, _)
EscapePass(rules, scc_rules, scc_names, can_escape) ==
    IF Len(scc_rules) = 0
    THEN can_escape
    ELSE LET rule == rules[Head(scc_rules)]
             found == IF rule.lhs.name \in can_escape THEN can_escape
                      ELSE IF rule_can_escape(rule, scc_names, can_escape)
                      THEN can_escape \cup {rule.lhs.name}
                      ELSE can_escape
         IN  EscapePass(rules, Tail(scc_rules), scc_names, found)

\* `loop { .. }`: passes until can_escape stops growing
RECURSIVE EscapeLoop(_, _, _, _)
EscapeLoop(rules, scc_rules, scc_names, can_escape) ==
    LET next == EscapePass(rules, scc_rules, scc_names, can_escape)
    IN  IF Cardinality(next) = Cardinality(can_escape)
        THEN next
        ELSE EscapeLoop(rules, scc_rules, scc_names, next)

is_trap_loop(rules, scc) ==
    LET scc_names == { NodeWeight(rules, n) : n \in scc }
        scc_rules == RulesNamed(rules, scc_names)
        can_escape == EscapeLoop(rules, scc_rules, scc_names, {})
    IN  Len(scc_rules) # 0 /\ can_escape = {}

\* rules.iter().find(|rule| rule.lhs.as_str() == name): the first rule of an
\* identifier
FirstRuleNamed(rules, name) ==
    CHOOSE r \in 1..Len(rules) :
        /\ rules[r].lhs.name = name
        /\ \A k \in 1..(r - 1) : rules[k].lhs.name # name

TrapOk == [kind |-> "Ok", spans |-> {}]

\* the error for a component: for each of its nodes the span of the first
\* rule that has the node's identifier (the order of the spans is that of the
\* nodes in the component, which tarjan_scc leaves open)
TrapLoop(rules, scc) ==
    [kind |-> "TrapLoop",
     spans |-> { RuleSpan(FirstRuleNamed(rules, NodeWeight(rules, n))) : n \in scc }]

\* the components that is_trap_loop holds of
TrapSccs(rules, g) == { scc \in tarjan_scc(g) : is_trap_loop(rules, scc) }

\* tarjan_scc lists the components in postorder: a component comes after all
\* the components it reaches; the order of unrelated components is left open
FirstTrapSccs(rules, g) ==
    { scc \in TrapSccs(rules, g) :
        \A other \in TrapSccs(rules, g) :
            other = scc \/ other \cap Dfs(g.edges, scc) = {} }

\* check_trap_loop: the error for the first component that is a trap loop;
\* the set of the results the order of the components allows
check_trap_loop(rules, g) ==
    IF TrapSccs(rules, g) = {}
    THEN {TrapOk}
    ELSE { TrapLoop(rules, scc) : scc \in FirstTrapSccs(rules, g) }

NotRun == [kind |-> "NotRun", spans |-> {}]

NoStrict ==
    [start |-> "", panic |-> FALSE, unused |-> UnusedOk, trap |-> NotRun, passed |-> FALSE]

\* App::strict_lint: the graph is built, then check_unused(start) and
\* check_trap_loop are run and their errors reported; a panic ends the program
strict_lint(rules, start, trap) ==
    LET g == graph(rules)
    IN  IF g.panic \/ check_unused(rules, g, start).kind = "Panic"
        THEN [start |-> start, panic |-> TRUE, unused |-> GraphPanic, trap |-> NotRun,
              passed |-> FALSE]
        ELSE [start |-> start, panic |-> FALSE,
              unused |-> check_unused(rules, g, start), trap |-> trap,
              passed |-> check_unused(rules, g, start).kind = "Ok" /\ trap.kind = "Ok"]

(***************************************************************************)
(* App::generate: the loop over `count` calls of Generator::generate on    *)
(* one RNG.  The generator's step ceiling (GeneratorSettings::max_steps,   *)
(* Error::MaxDepthExceeded) follows the description of the step ceiling:   *)
(* an attempt that would go beyond max_steps reductions is aborted.        *)
(***************************************************************************)
\* max_steps of None
NoCeiling == -1

\* the default of --max-attempts
max_attempts == 100

NoApp ==
    [status |-> "idle", start |-> "", count |-> 0, max_steps |-> NoCeiling,
     i |-> 0, attempts |-> 0, outputs |-> <<>>, err |-> "none", aborted |-> 0]

\* outputs = Vec::with_capacity(count), before the first turn of the loop
NewApp(start, n, max_steps) ==
    [status |-> "running", start |-> start, count |-> n, max_steps |-> max_steps,
     i |-> 0, attempts |-> 0, outputs |-> <<>>, err |-> "none", aborted |-> 0]

\* whether the attempt has used up its steps
CeilingHit(d, max_steps) ==
    /\ d.status = "running"
    /\ d.stack # <<>>
    /\ max_steps # NoCeiling
    /\ d.steps >= max_steps

\* the attempt is aborted: Err(MaxDepthExceeded)
Abort(d) ==
    [d EXCEPT !.stack = <<>>, !.buf = <<>>, !.status = "Err",
              !.err = "MaxDepthExceeded"]

\* the match on what generate returned: Ok is pushed, MaxDepthExceeded goes
\* on with the next turn of the loop, any other error is returned at once;
\* a panic ends the program
AppMatch(a, d) ==
    CASE d.status = "Ok" ->
           [a EXCEPT !.outputs = Append(@, d.out), !.i = @ + 1]
      [] d.status = "Err" /\ d.err = "MaxDepthExceeded" ->
           [a EXCEPT !.i = @ + 1, !.aborted = @ + 1]
      [] d.status = "Err" ->
           [a EXCEPT !.status = "Err", !.err = d.err]
      [] d.status = "Panic" ->
           [a EXCEPT !.status = "Panic"]
      [] OTHER -> a

\* the loop is over: Ok(outputs)
AppReturnOk(a) == [a EXCEPT !.status = "Ok"]

(***************************************************************************)
(* Two derivations side by side.  Each call of generate owns its State and *)
(* its RNG; an RNG is a stream of raw values fixed by its seed, read two   *)
(* at a turn of the loop that draws.                                       *)
(***************************************************************************)
\* the RNG after it was read: a full cycle through its states
NextRng(x) == (4 * x + 1) % (RngRange * RngRange)

\* the raw values read at state x
Draw1(x) == x \div RngRange

Draw2(x) == x % RngRange

DrawsOf(x) == [i \in 1..MaxDraws |-> IF i % 2 = 1 THEN Draw1(x) ELSE Draw2(x)]

\* a turn that reads the RNG it was handed and also the counts of `other`
TurnSharing(rules, d, x, other) ==
    CASE d.status = "running" /\ d.stack # <<>> /\ Head(d.stack).kind = "Regex" ->
           SampleStep(rules, d, DrawsOf(x))
      [] d.status = "running" /\ d.stack # <<>> ->
           ReduceStep(rules, [d EXCEPT !.tracking = other.tracking], Draw1(x), Draw2(x))
      [] d.status = "running" -> ReturnOk(d)
      [] OTHER -> d

\* one turn of the loop of generate (or its return) in a call whose RNG is
\* at x; `other` is the call that runs beside it
Turn(rules, d, x, other) ==
    CASE d.status = "running" /\ d.stack # <<>> /\ Head(d.stack).kind = "Regex" ->
           SampleStep(rules, d, DrawsOf(x))
      [] d.status = "running" /\ d.stack # <<>> ->
           ReduceStep(rules, d, Draw1(x), Draw2(x))
      [] d.status = "running" -> ReturnOk(d)
      [] OTHER -> d

\* whether the turn reads the RNG: a reference or a pattern is reduced
Draws(d) ==
    /\ d.status = "running"
    /\ d.stack # <<>>
    /\ Head(d.stack).kind # "Terminal"

RngAfter(d, x) == IF Draws(d) THEN NextRng(x) ELSE x

\* whether the call has a turn to make, within the turns the model follows
CanTurn(d, run) == d.status = "running" /\ run.turns < MaxSteps

NoRun == [seed |-> 0, x |-> 0, turns |-> 0, calls |-> 0]

NoPar == [a |-> NoRun, b |-> NoRun]

\* the seeds a thread can give its RNG
Seeds == 0..MaxSeed

\* the state of the RNG when the next call of a thread begins: its seed at
\* the first call, where the last call left it afterwards
RngAtCall(run) == IF run.calls = 0 THEN Seeds ELSE {run.x}

\* a call begins with an RNG at x
NewRun(run, x) == [seed |-> x, x |-> x, turns |-> 0, calls |-> run.calls + 1]

\* the call made a turn
RunAfter(run, d) == [run EXCEPT !.x = RngAfter(d, @), !.turns = @ + 1]

(***************************************************************************)
(* The front end: Token::Str of the lexer, the parser's errors and         *)
(* convert_parse_error.  The text is read token by token; a string literal *)
(* is a sequence of units between quotes, a unit being an escape or a      *)
(* character that is neither a quote nor a backslash.  The parser is the   *)
(* one of the grammar text format, for texts made of the tokens below.     *)
(***************************************************************************)
BSL == "\\"

QUOTE == "\""

\* the characters a newline, a tab and a carriage return, by name
NL == "NL"

TAB == "TAB"

CR == "CR"

\* "(\\["nrt\\]|[^"\\])*": the units of a string literal
Units ==
    { <<"a">>, <<"n">>, <<BSL, QUOTE>>, <<BSL, "n">>, <<BSL, "t">>, <<BSL, "r">>,
      <<BSL, BSL>> }

RECURSIVE Flatten(_)
Flatten(units) ==
    IF Len(units) = 0 THEN <<>> ELSE Head(units) \o Flatten(Tail(units))

\* str::replace of a pattern of two characters: the matches are found from
\* left to right and do not overlap
RECURSIVE Replace(_, _, _)
Replace(text, from, to) ==
    IF Len(text) < 2 THEN text
    ELSE IF SubSeq(text, 1, 2) = from
         THEN <<to>> \o Replace(SubSeq(text, 3, Len(text)), from, to)
         ELSE <<Head(text)>> \o Replace(Tail(text), from, to)

\* the callback of Token::Str on the text between the quotes
StrCallback(text) ==
    Replace(Replace(Replace(Replace(text, <<BSL, QUOTE>>, QUOTE),
                            <<BSL, "n">>, NL),
                    <<BSL, "t">>, TAB),
            <<BSL, "r">>, CR)

\* the tokens of the texts read, and the bytes they take ("Str" apart)
TokenKinds == {"<", ">", "Id", "::=", "Str", ";", "*"}

Width(kind) == IF kind = "::=" THEN 3 ELSE 1

\* a line comment at the head of the text: "//\n"
CommentWidth == 3

\* the parser: grammar := rule (rule)* ; rule := "<" id ">" "::=" alts ";" ;
\* alts of symbols: string | "<" id ">".  The state after a token, "error"
\* when the token cannot follow
ParserStep(ps, kind) ==
    CASE ps = "start" /\ kind = "<" -> "lhs"
      [] ps = "lhs" /\ kind = "Id" -> "lhsId"
      [] ps = "lhsId" /\ kind = ">" -> "lhsEnd"
      [] ps = "lhsEnd" /\ kind = "::=" -> "alts"
      [] ps = "alts" /\ kind = "Str" -> "alts"
      [] ps = "alts" /\ kind = "<" -> "ref"
      [] ps = "ref" /\ kind = "Id" -> "refId"
      [] ps = "refId" /\ kind = ">" -> "alts"
      [] ps = "alts" /\ kind = ";" -> "rule"
      [] ps = "rule" /\ kind = "<" -> "lhs"
      [] OTHER -> "error"

NoError == [kind |-> "none", start |-> 0, end |-> 0]

\* Span::new(start, end) in an error
ParseError(kind, start, end) == [kind |-> kind, start |-> start, end |-> end]

NoFront ==
    [status |-> "idle", n |-> 0, off |-> 0, loc |-> 0, ps |-> "start",
     err |-> NoError, units |-> <<>>, str |-> <<>>, kind |-> "none"]

\* RawGrammar::parse is entered on a text whose first `skipped` bytes are a
\* comment; the parser's last location is usize::default()
NewFront(skipped) == [NoFront EXCEPT !.status = "parsing", !.off = skipped]

\* the parser takes the next token (l, tok, r) of the lexer: a lexical error
\* and a token that cannot follow end the parse with an error
FrontShift(f, kind, units) ==
    LET l == f.off
        r == IF kind = "Str" THEN l + 2 + Len(Flatten(units)) ELSE l + Width(kind)
        ps == ParserStep(f.ps, kind)
        g == [f EXCEPT !.n = @ + 1, !.off = r, !.kind = kind,
                       !.units = IF kind = "Str" THEN units ELSE <<>>,
                       !.str = IF kind = "Str" THEN StrCallback(Flatten(units)) ELSE <<>>]
    IN  IF kind = "*"
        THEN [g EXCEPT !.status = "Err", !.err = ParseError("InvalidToken", l, r)]
        ELSE IF ps = "error"
        THEN [g EXCEPT !.status = "Err", !.err = ParseError("UnrecognizedToken", l, r)]
        ELSE [g EXCEPT !.ps = ps, !.loc = r]

\* location - 1 on usize: a panic where overflow is checked, else it wraps
LocationBefore(location) ==
    IF location >= 1
    THEN { [panic |-> FALSE, value |-> location - 1] }
    ELSE { [panic |-> TRUE, value |-> 0], [panic |-> FALSE, value |-> UsizeMax] }

\* the lexer is at the end of the text: the parse is over, or it fails with
\* UnrecognizedEof { location }, which convert_parse_error turns into the
\* span (location - 1, location)
FrontEof(f, before) ==
    IF f.ps = "rule"
    THEN [f EXCEPT !.status = "Ok", !.kind = "none"]
    ELSE IF before.panic
    THEN [f EXCEPT !.status = "Panic", !.kind = "none"]
    ELSE [f EXCEPT !.status = "Err", !.kind = "none",
                   !.err = ParseError("UnrecognizedEof", before.value, f.loc)]

(***************************************************************************)
(* State.  A second process (twin) runs the same calls on the same checked *)
(* grammar with an RNG seeded alike: it sees the same raw draws.           *)
(***************************************************************************)
VARIABLES
    raw,        \* RawGrammar::rules, as parsed
    stage,      \* "parsed", then "checked" or "rejected", or "strict"
    checked,    \* CheckedGrammar::rules
    result,     \* what to_checked returned
    linted,     \* whether App::lint ran the validation
    diags,      \* the errors App::lint reported
    gen,        \* the current (or last) generate call
    outs,       \* the outcomes of the calls so far
    calls,      \* the number of generate calls made
    twin,       \* the same call in the second process
    twinOuts,   \* its outcomes
    strict,     \* what App::strict_lint found
    tree,       \* the same call made to TreeGenerator::generate
    app,        \* the call of App::generate: its arguments, outputs, result
    par,        \* the RNGs of two derivations that run side by side
    front       \* the grammar text, and what the lexer and the parser made of it

\* the state that the library calls above leave alone
others == << app, par, front >>

vars ==
    << raw, stage, checked, result, linted, diags, gen, outs, calls, twin, twinOuts,
       strict, tree, app, par, front >>

Init ==
    /\ raw \in RawGrammars
    /\ stage = "parsed"
    /\ checked = <<>>
    /\ result = Ok
    /\ linted = FALSE
    /\ diags = <<>>
    /\ gen = Idle
    /\ outs = <<>>
    /\ calls = 0
    /\ twin = Idle
    /\ twinOuts = <<>>
    /\ strict = NoStrict
    /\ tree = IdleTree
    /\ app = NoApp
    /\ par = NoPar
    /\ front = NoFront

Validated(c) ==
    /\ stage' = IF c.result.kind = "Ok" THEN "checked" ELSE "rejected"
    /\ checked' = c.rules
    /\ result' = c.result

\* a caller of the library: RawGrammar::to_checked
ToChecked ==
    /\ stage = "parsed"
    /\ Validated(to_checked(raw))
    /\ UNCHANGED << others, raw, linted, diags, gen, outs, calls, twin, twinOuts, strict, tree >>

\* the command line: App::lint
Lint ==
    /\ stage = "parsed"
    /\ diags' = LintReports(raw)
    /\ linted' = TRUE
    /\ Validated(to_checked(raw))
    /\ UNCHANGED << others, raw, gen, outs, calls, twin, twinOuts, strict, tree >>

\* the command line with the strict flag: App::strict_lint on the parsed
\* grammar, from a start identifier the caller names
StrictLint ==
    /\ stage = "parsed"
    /\ \E start \in StartNames :
          \E trap \in (IF graph(raw).panic THEN {NotRun} ELSE check_trap_loop(raw, graph(raw))) :
              strict' = strict_lint(raw, start, trap)
    /\ stage' = "strict"
    /\ UNCHANGED << others, raw, checked, result, linted, diags, gen, outs, calls, twin, twinOuts, tree >>

\* Generator::generate is entered, for the first time or again with the
\* same RNG
Generate ==
    /\ stage = "checked"
    /\ gen.status \in {"idle", "Ok", "Err"}
    /\ calls < MaxCalls
    /\ \E startName \in StartNames, h1 \in HashSeeds, h2 \in HashSeeds :
          /\ gen' = NewDerivation(checked, startName, h1)
          /\ twin' = NewDerivation(checked, startName, h2)
          /\ tree' = NewTree(startName, h1)
    /\ calls' = calls + 1
    /\ UNCHANGED << others, raw, stage, checked, result, linted, diags, outs, twinOuts, strict >>

\* whether the next turn of the loop reduces a pattern
AtPattern(d) ==
    /\ d.status = "running"
    /\ d.stack # <<>>
    /\ d.steps < MaxSteps
    /\ Head(d.stack).kind = "Regex"

\* whether it reduces a terminal or a reference
AtSymbol(d) ==
    /\ d.status = "running"
    /\ d.stack # <<>>
    /\ d.steps < MaxSteps
    /\ Head(d.stack).kind # "Regex"

\* the twin's turn on the same draws
TwinReduce(r1, r2) ==
    IF AtSymbol(twin) THEN ReduceStep(checked, twin, r1, r2) ELSE twin

TwinSample(ds) ==
    IF AtPattern(twin) THEN SampleStep(checked, twin, ds) ELSE twin

\* the turn of the tree generator on the same draws
TreeReduce(r1, r2) ==
    IF TreeAtSymbol(tree) THEN TreeStep(checked, tree, r1, r2) ELSE tree

TreeSample(ds) ==
    IF TreeAtPattern(tree) THEN TreeSampleStep(checked, tree, ds) ELSE tree

TreeReturn == IF TreeDone(tree) THEN TreeReturnOk(tree) ELSE tree

TwinReturn ==
    IF twin.status = "running" /\ twin.stack = <<>> THEN ReturnOk(twin) ELSE twin

\* one turn of the loop of generate
Reduce ==
    /\ AtSymbol(gen)
    /\ \E r1 \in 0..(RngRange - 1), r2 \in 0..(RngRange - 1) :
          /\ gen' = ReduceStep(checked, gen, r1, r2)
          /\ twin' = TwinReduce(r1, r2)
          /\ tree' = TreeReduce(r1, r2)
    /\ outs' = Collect(outs, gen')
    /\ twinOuts' = Collect(twinOuts, twin')
    /\ UNCHANGED << others, raw, stage, checked, result, linted, diags, calls, strict >>

\* one turn of the loop of generate on a pattern: one sample
Sample ==
    /\ AtPattern(gen)
    /\ \E ds \in [1..MaxDraws -> 0..(RngRange - 1)] :
          /\ gen' = SampleStep(checked, gen, ds)
          /\ twin' = TwinSample(ds)
          /\ tree' = TreeSample(ds)
    /\ outs' = Collect(outs, gen')
    /\ twinOuts' = Collect(twinOuts, twin')
    /\ UNCHANGED << others, raw, stage, checked, result, linted, diags, calls, strict >>

\* generate returns its string
Return ==
    /\ gen.status = "running"
    /\ gen.stack = <<>>
    /\ gen' = ReturnOk(gen)
    /\ twin' = TwinReturn
    /\ tree' = TreeReturn
    /\ outs' = Collect(outs, gen')
    /\ twinOuts' = Collect(twinOuts, twin')
    /\ UNCHANGED << others, raw, stage, checked, result, linted, diags, calls, strict >>

Next == ToChecked \/ Lint \/ StrictLint \/ Generate \/ Reduce \/ Sample \/ Return

Spec == Init /\ [][Next]_vars

\* a pass of the loop of Regex::generate that ends the reduction of the pattern
SampleEnds == Sample /\ gen'.steps # gen.steps

\* the RNG is fair: a pattern that can give a sample that ends its reduction
\* (a string that is no terminal, or a panic) is not sampled for ever without
\* giving one
LiveSpec == Spec /\ WF_vars(SampleEnds)

(***************************************************************************)
(* The command line: App::lint, then App::generate.                        *)
(***************************************************************************)
\* the library calls of the specification above are not made here
NoLibraryCall == UNCHANGED << outs, calls, twin, twinOuts, strict, tree, par, front >>

\* App::generate is entered
AppGenerate ==
    /\ stage = "checked"
    /\ linted
    /\ app.status = "idle"
    /\ \E start \in StartNames, n \in 0..MaxCount,
          max_steps \in {NoCeiling} \cup 1..MaxCeiling :
          app' = NewApp(start, n, max_steps)
    /\ UNCHANGED << raw, stage, checked, result, linted, diags, gen >>
    /\ NoLibraryCall

AttemptOver == gen.status \in {"idle", "Ok", "Err"}

\* a turn of the loop begins: generator.generate(&start, &mut rng)
AppAttempt ==
    /\ app.status = "running"
    /\ AttemptOver
    /\ app.i < app.count
    /\ \E h \in HashSeeds : gen' = NewDerivation(checked, app.start, h)
    /\ app' = [app EXCEPT !.attempts = @ + 1]
    /\ UNCHANGED << raw, stage, checked, result, linted, diags >>
    /\ NoLibraryCall

\* a turn of the generator's loop within the step ceiling
AppReduce ==
    /\ app.status = "running"
    /\ AtSymbol(gen)
    /\ ~CeilingHit(gen, app.max_steps)
    /\ \E r1 \in 0..(RngRange - 1), r2 \in 0..(RngRange - 1) :
          gen' = ReduceStep(checked, gen, r1, r2)
    /\ app' = AppMatch(app, gen')
    /\ UNCHANGED << raw, stage, checked, result, linted, diags >>
    /\ NoLibraryCall

AppSample ==
    /\ app.status = "running"
    /\ AtPattern(gen)
    /\ ~CeilingHit(gen, app.max_steps)
    /\ \E ds \in [1..MaxDraws -> 0..(RngRange - 1)] :
          gen' = SampleStep(checked, gen, ds)
    /\ app' = AppMatch(app, gen')
    /\ UNCHANGED << raw, stage, checked, result, linted, diags >>
    /\ NoLibraryCall

\* the step ceiling aborts the attempt
AppAbort ==
    /\ app.status = "running"
    /\ CeilingHit(gen, app.max_steps)
    /\ gen' = Abort(gen)
    /\ app' = AppMatch(app, gen')
    /\ UNCHANGED << raw, stage, checked, result, linted, diags >>
    /\ NoLibraryCall

\* generate returns its string
AppReturn ==
    /\ app.status = "running"
    /\ gen.status = "running"
    /\ gen.stack = <<>>
    /\ gen' = ReturnOk(gen)
    /\ app' = AppMatch(app, gen')
    /\ UNCHANGED << raw, stage, checked, result, linted, diags >>
    /\ NoLibraryCall

\* the loop has made its count turns
AppFinish ==
    /\ app.status = "running"
    /\ AttemptOver
    /\ app.i = app.count
    /\ app' = AppReturnOk(app)
    /\ UNCHANGED << raw, stage, checked, result, linted, diags, gen >>
    /\ NoLibraryCall

DriverNext ==
    \/ Lint \/ AppGenerate \/ AppAttempt \/ AppReduce \/ AppSample \/ AppAbort
    \/ AppReturn \/ AppFinish

DriverSpec == Init /\ [][DriverNext]_vars

(***************************************************************************)
(* Two threads that call Generator::generate on one checked grammar, each  *)
(* with its own RNG, their turns interleaved in any order.                 *)
(***************************************************************************)
NoOtherCall == UNCHANGED << outs, calls, twinOuts, strict, tree, app, front >>

CallOver(d) == d.status \in {"idle", "Ok", "Err"}

\* the first thread enters generate
StartA ==
    /\ stage = "checked"
    /\ CallOver(gen)
    /\ par.a.calls + par.b.calls <= MaxCalls
    /\ \E startName \in StartNames, seed \in RngAtCall(par.a) :
          /\ gen' = NewDerivation(checked, startName, 0)
          /\ par' = [par EXCEPT !.a = NewRun(@, seed)]
    /\ UNCHANGED << raw, stage, checked, result, linted, diags, twin >>
    /\ NoOtherCall

\* the second thread enters generate
StartB ==
    /\ stage = "checked"
    /\ CallOver(twin)
    /\ par.a.calls + par.b.calls <= MaxCalls
    /\ \E startName \in StartNames, seed \in RngAtCall(par.b) :
          /\ twin' = NewDerivation(checked, startName, 1)
          /\ par' = [par EXCEPT !.b = NewRun(@, seed)]
    /\ UNCHANGED << raw, stage, checked, result, linted, diags, gen >>
    /\ NoOtherCall

\* a turn of the first thread
StepA ==
    /\ CanTurn(gen, par.a)
    /\ gen' = Turn(checked, gen, par.a.x, twin)
    /\ par' = [par EXCEPT !.a = RunAfter(@, gen)]
    /\ UNCHANGED << raw, stage, checked, result, linted, diags, twin >>
    /\ NoOtherCall

\* a turn of the second thread
StepB ==
    /\ CanTurn(twin, par.b)
    /\ twin' = Turn(checked, twin, par.b.x, gen)
    /\ par' = [par EXCEPT !.b = RunAfter(@, twin)]
    /\ UNCHANGED << raw, stage, checked, result, linted, diags, gen >>
    /\ NoOtherCall

ParallelNext == ToChecked \/ StartA \/ StartB \/ StepA \/ StepB

ParallelSpec == Init /\ [][ParallelNext]_vars

(***************************************************************************)
(* RawGrammar::parse on a text, token by token.                            *)
(***************************************************************************)
FrontInit ==
    /\ raw = <<>>
    /\ stage = "text"
    /\ checked = <<>>
    /\ result = Ok
    /\ linted = FALSE
    /\ diags = <<>>
    /\ gen = Idle
    /\ outs = <<>>
    /\ calls = 0
    /\ twin = Idle
    /\ twinOuts = <<>>
    /\ strict = NoStrict
    /\ tree = IdleTree
    /\ app = NoApp
    /\ par = NoPar
    /\ front \in { NewFront(skipped) : skipped \in {0, CommentWidth} }

NotParsedYet ==
    UNCHANGED << raw, stage, checked, result, linted, diags, gen, outs, calls, twin,
                 twinOuts, strict, tree, app, par >>

\* the lexer gives a token and the parser takes it
Shift ==
    /\ front.status = "parsing"
    /\ front.n < MaxTokens
    /\ \E kind \in TokenKinds :
          \E units \in UNION { [1..k -> Units] : k \in 0..MaxUnits } :
              /\ kind # "Str" => units = <<>>
              /\ front' = FrontShift(front, kind, units)
    /\ NotParsedYet

\* the lexer is at the end of the text
Eof ==
    /\ front.status = "parsing"
    /\ \E before \in LocationBefore(front.loc) : front' = FrontEof(front, before)
    /\ NotParsedYet

FrontNext == Shift \/ Eof

FrontSpec == FrontInit /\ [][FrontNext]_vars

(***************************************************************************)
(* A grammar with a limit `{0,}` and the same grammar without it, derived  *)
(* side by side on the same draws.                                         *)
(***************************************************************************)
LimitInit ==
    /\ raw = OpenLimitGrammar
    /\ stage = "parsed"
    /\ checked = <<>>
    /\ result = Ok
    /\ linted = FALSE
    /\ diags = <<>>
    /\ gen = Idle
    /\ outs = <<>>
    /\ calls = 0
    /\ twin = Idle
    /\ twinOuts = <<>>
    /\ strict = NoStrict
    /\ tree = IdleTree
    /\ app = NoApp
    /\ par = NoPar
    /\ front = NoFront

OnlyDerivations ==
    UNCHANGED << others, raw, stage, checked, result, linted, diags, outs, calls,
                 twinOuts, strict, tree >>

\* generate is entered on either grammar
LimitStart ==
    /\ stage = "checked"
    /\ gen.status = "idle"
    /\ \E startName \in Defined(checked), h \in HashSeeds :
          /\ gen' = NewDerivation(checked, startName, h)
          /\ twin' = NewDerivation(Relaxed(checked), startName, h)
    /\ OnlyDerivations

\* one turn of the loop of generate on either grammar, on the same draws
LimitReduce ==
    /\ stage = "checked"
    /\ AtSymbol(gen) \/ AtSymbol(twin)
    /\ \E r1 \in 0..(RngRange - 1), r2 \in 0..(RngRange - 1) :
          /\ gen' = IF AtSymbol(gen) THEN ReduceStep(checked, gen, r1, r2) ELSE gen
          /\ twin' = IF AtSymbol(twin)
                     THEN ReduceStep(Relaxed(checked), twin, r1, r2)
                     ELSE twin
    /\ OnlyDerivations

\* generate returns its string
LimitReturn ==
    /\ stage = "checked"
    /\ ~AtSymbol(gen) /\ ~AtSymbol(twin)
    /\ \/ gen.status = "running" /\ gen.stack = <<>>
       \/ twin.status = "running" /\ twin.stack = <<>>
    /\ gen' = IF gen.status = "running" /\ gen.stack = <<>> THEN ReturnOk(gen) ELSE gen
    /\ twin' = TwinReturn
    /\ OnlyDerivations

LimitNext == ToChecked \/ LimitStart \/ LimitReduce \/ LimitReturn

LimitSpec == LimitInit /\ [][LimitNext]_vars

(***************************************************************************)
(* Properties.                                                             *)
(***************************************************************************)
\* out.split(" ").count()
SplitCount(str) == Cardinality({ i \in 1..Len(str) : str[i] = " " }) + 1

Range(seq) == { seq[i] : i \in 1..Len(seq) }

Last(seq) == seq[Len(seq)]

\* C1: in a successful derivation every alternative with a limit {min,max}
\* was selected at most max times.
C1_SelectedAtMostMax ==
    gen.status = "Ok" =>
        \A p \in DOMAIN gen.selected :
            AltAt(checked, p).invoke_limit.limited =>
                gen.selected[p] <= AltAt(checked, p).invoke_limit.max

\* C2: when a production has an alternative with a limit whose count is below
\* its min, the alternative that is selected is one of those under their floor.
C2_UnderFloorPreferred ==
    (gen.last.tag = "NonTerminal" /\ gen.last.underfloor # {}) =>
        gen.last.alt \in gen.last.underfloor

\* C2 happens: an alternative under its floor was selected while another
\* alternative of the production, not under a floor, had not exceeded its limit
C2_Witness ==
    /\ gen.last.tag = "NonTerminal"
    /\ gen.last.alt \in gen.last.underfloor
    /\ \E i \in 1..Len(checked[gen.last.rule].production) :
          i \notin gen.last.underfloor /\ i \notin gen.last.exceeded

\* C3: in `<S> ::= <E> | <S> <E> {n}; <E> ::= "a" | "b"` a derivation from S
\* selects `<S> <E>` n times before it can select `<E>`, and its output has at
\* least n terminals separated by spaces.
C3_RepeatFloor ==
    (raw = RepeatGrammar /\ gen.start = "S" /\ gen.status \in {"running", "Ok"}) =>
        /\ gen.selected[AltSpan(1, 1)] > 0 => gen.selected[AltSpan(1, 2)] >= MinRepeat
        /\ gen.status = "Ok" => SplitCount(gen.out) >= MinRepeat

\* C3 happens: a derivation from S succeeded with `<S> <E>` selected n times
C3_Witness ==
    /\ raw = RepeatGrammar
    /\ gen.start = "S"
    /\ gen.status = "Ok"
    /\ gen.selected[AltSpan(1, 2)] = MinRepeat

\* C4: when a non-terminal is reduced with no alternative under its floor and
\* every alternative over its max, generate returns NoCandidates with the name
\* of the non-terminal and no string; in `<S> ::= <A> <A> <A>; <A> ::= "a" {0}
\* | "b" {0}` this happens at the third reduction of <A>, and generation from S
\* never succeeds.
C4_NoCandidates ==
    /\ ( /\ gen.last.tag \in {"NonTerminal", "Err"}
         /\ gen.last.underfloor = {}
         /\ gen.last.exceeded = 1..Len(checked[gen.last.rule].production) )
       => /\ gen.status = "Err"
          /\ gen.errName = gen.last.sym.name
          /\ gen.out = NoStr
          /\ Last(outs) = [status |-> "Err", out |-> NoStr, errName |-> gen.last.sym.name]
    /\ (raw = ExhaustGrammar /\ gen.start = "S" /\ gen.status # "idle")
       => /\ gen.status \in {"running", "Err"}
          /\ gen.selected[AltSpan(2, 1)] <= 1
          /\ gen.selected[AltSpan(2, 2)] <= 1
          /\ gen.status = "Err" =>
                /\ gen.errName = "A"
                /\ gen.selected[AltSpan(2, 1)] + gen.selected[AltSpan(2, 2)] = 2

\* C4 happens: the third <A> found both alternatives over their max
C4_Witness ==
    /\ raw = ExhaustGrammar
    /\ gen.start = "S"
    /\ gen.status = "Err"
    /\ gen.errName = "A"
    /\ gen.last.exceeded = {1, 2}

IntWords == { <<"1">>, <<"+">> }

BoolWords == { <<"t">>, <<"&">> }

\* C6: a typed reference is expanded with the rule of exactly its identifier
\* and tag, an untyped reference with a rule of its identifier; a derivation
\* of the typed grammar never mixes the words of the int and the bool rule.
C6_TypeDiscipline ==
    /\ gen.last.tag \in {"NonTerminal", "Err"} =>
          /\ checked[gen.last.rule].lhs.name = gen.last.sym.name
          /\ gen.last.sym.ty # Untyped => checked[gen.last.rule].lhs.ty = gen.last.sym.ty
    /\ (raw = TypedGrammar /\ gen.status = "running") =>
          ~ \E i, j \in 1..Len(gen.buf) :
                gen.buf[i] \in IntWords /\ gen.buf[j] \in BoolWords

\* C6 happens: the recursive <E: "int"> was expanded by the recursive
\* alternative in a grammar that also has a rule <E: "bool">
C6_Witness ==
    /\ raw = TypedGrammar
    /\ gen.start = "S"
    /\ gen.last.tag = "NonTerminal"
    /\ gen.last.sym.ty = "int"
    /\ gen.last.alt = 2
    /\ gen.steps > 2

\* C7: when a typed reference is reduced and no rule has exactly its
\* identifier and tag, generate returns an error to its caller.
C7_MissingTypedRuleIsError ==
    ( /\ gen.last.tag # "none"
      /\ gen.last.sym.kind = "NonTerminal"
      /\ gen.last.sym.ty # Untyped
      /\ ~ \E i \in 1..Len(checked) :
              checked[i].lhs = NonTerminal(gen.last.sym.name, gen.last.sym.ty) )
    => gen.status = "Err"

\* a reference resolves: a typed one to the rule of its identifier and tag,
\* an untyped one to a rule of its identifier
Resolves(rules, sym) ==
    IF sym.ty = Untyped
    THEN \E i \in 1..Len(rules) : rules[i].lhs.name = sym.name
    ELSE \E i \in 1..Len(rules) : rules[i].lhs = NonTerminal(sym.name, sym.ty)

\* C8: every reference in an alternative of a checked grammar resolves to a
\* rule under the lookup rules of the engine.
C8_ReferencesResolve ==
    stage = "checked" =>
        \A p \in SymPositions(checked) :
            SymAt(checked, p).kind = "NonTerminal" => Resolves(checked, SymAt(checked, p))

DuplicatedKeys(rules) ==
    \E i, j \in 1..Len(rules) : i < j /\ rules[i].lhs = rules[j].lhs

\* C9: to_checked rejects with DuplicatedRules a grammar with two rules of the
\* same identifier and type tag, and accepts rules that share an identifier
\* and differ in tag.
C9_DuplicatesRejected ==
    stage \in {"checked", "rejected"} =>
        /\ DuplicatedKeys(raw) => stage = "rejected"
        /\ (DuplicatedKeys(raw) /\ UndefinedRefs(raw) = {}) =>
              result.kind = "DuplicatedRules"
        /\ (~DuplicatedKeys(raw) /\ UndefinedRefs(raw) = {} /\ InvalidRanges(raw) = {}) =>
              stage = "checked"

\* C10, as claimed: validation reports every undefined reference and every
\* limit with min > max.
C10_EveryViolationReported ==
    linted =>
        /\ \A p \in UndefinedRefs(raw) : Err("UndefinedNonTerminal", p) \in Range(diags)
        /\ \A p \in InvalidRanges(raw) : Err("InvalidRepeatRange", p) \in Range(diags)

\* what lint reports: for each check that fails, its first violation
FirstViolations(rules) ==
    (IF UndefinedRefs(rules) = {} THEN <<>>
     ELSE << Err("UndefinedNonTerminal", FirstSpan(UndefinedRefs(rules))) >>)
    \o
    (IF InvalidRanges(rules) = {} THEN <<>>
     ELSE << Err("InvalidRepeatRange", FirstSpan(InvalidRanges(rules))) >>)

\* C10, amended: App::lint reports one error for each of check_undefined and
\* check_repeats that fails, the first violation that check meets in source
\* order; to_checked returns the first of these errors alone.
C10_FirstViolationPerCheck ==
    /\ linted => diags = FirstViolations(raw)
    /\ ~linted => diags = <<>>
    /\ stage \in {"checked", "rejected"} =>
          result = IF FirstViolations(raw) = <<>> THEN Ok ELSE FirstViolations(raw)[1]

\* C10 happens: lint reported an undefined reference and a bad range for a
\* grammar with more violations than that
C10_Witness ==
    /\ linted
    /\ Len(diags) = 2
    /\ Cardinality(UndefinedRefs(raw) \cup InvalidRanges(raw)) > 2

\* the alternatives whose bounded limit does not satisfy min <= max
BadAlts(rules) ==
    { p \in AltPositions(rules) :
        LET limit == AltAt(rules, p).invoke_limit
        IN  limit.limited /\ ~(limit.min <= limit.max) }

Refers(rules, a, b) ==
    \E p \in SymPositions(rules) :
        /\ rules[p[1]].lhs.name = a
        /\ SymAt(rules, p).kind = "NonTerminal"
        /\ SymAt(rules, p).name = b

\* the identifiers reachable from start along reference edges: the least set
\* that holds start and is closed under Refers
ReachableFrom(rules, start) ==
    { n \in Defined(rules) :
        \A S \in SUBSET Defined(rules) :
            ( /\ start \in S
              /\ \A a \in S : \A b \in Defined(rules) : Refers(rules, a, b) => b \in S )
            => n \in S }

StrictRan == strict.start # "" /\ ~strict.panic

\* C12: check_unused(start) returns Ok exactly when every identifier that has
\* a rule is reachable from start along reference edges; else it returns
\* UnreachableRules with the spans of exactly the rules whose identifier is
\* not reachable.
C12_Unused ==
    StrictRan =>
        LET unreachable == Defined(raw) \ ReachableFrom(raw, strict.start)
        IN  /\ (strict.unused.kind = "Ok") <=> (unreachable = {})
            /\ strict.unused.kind # "Ok" =>
                  /\ strict.unused.kind = "UnreachableRules"
                  /\ Range(strict.unused.spans) =
                        { RuleSpan(r) : r \in { k \in 1..Len(raw) :
                                                  raw[k].lhs.name \in unreachable } }
                  /\ Len(strict.unused.spans) = Cardinality(Range(strict.unused.spans))

\* C12 happens: from E the rules <W> and <C> of the test grammar are reported
\* and the loop <A>, <B>, reached through <A>, is not
C12_Witness ==
    /\ raw = UnreachableGrammar
    /\ strict.start = "E"
    /\ strict.unused = [kind |-> "UnreachableRules",
                        spans |-> << RuleSpan(2), RuleSpan(5) >>]

\* the strongly connected components of the reference graph whose nodes are
\* the identifiers
NameSccs(rules) ==
    { { b \in ReachableFrom(rules, a) : a \in ReachableFrom(rules, b) } :
        a \in Defined(rules) }

\* an alternative escapes the component C given the escaping identifiers S
AltEscapes(alt, C, S) ==
    \A i \in 1..Len(alt.symbols) :
        \/ alt.symbols[i].kind # "NonTerminal"
        \/ alt.symbols[i].name \notin C
        \/ alt.symbols[i].name \in S

\* the least fixed point of "escapes" in the component C
Escapes(rules, C) ==
    { n \in C :
        \A S \in SUBSET C :
            ( \A r \in 1..Len(rules) :
                ( /\ rules[r].lhs.name \in C
                  /\ \E a \in 1..Len(rules[r].production) :
                        AltEscapes(rules[r].production[a], C, S) )
                => rules[r].lhs.name \in S )
            => n \in S }

\* C13: check_trap_loop returns TrapLoop exactly when some strongly connected
\* component of the reference graph has an empty least fixed point of
\* "escapes"; a component with an escaping rule is not reported.
C13_TrapLoopIff ==
    StrictRan =>
        ( (strict.trap.kind = "TrapLoop")
          <=> (\E C \in NameSccs(raw) : Escapes(raw, C) = {}) )

\* the identifiers from which some derivation ends in terminals: the least
\* set closed under "has an alternative of terminals, patterns and
\* identifiers of the set"
Productive(rules) ==
    { n \in Defined(rules) :
        \A S \in SUBSET Defined(rules) :
            ( \A r \in 1..Len(rules) :
                ( \E a \in 1..Len(rules[r].production) :
                    AltEscapes(rules[r].production[a], Defined(rules), S) )
                => rules[r].lhs.name \in S )
            => n \in S }

\* C14: a grammar with a strongly connected component none of whose rules can
\* derive a string of terminals is rejected by check_trap_loop; a grammar that
\* check_trap_loop accepts has no rule from which generation never ends.
C14_TrapLoopsRejected ==
    StrictRan =>
        /\ (\E C \in NameSccs(raw) : C \cap Productive(raw) = {}) =>
              strict.trap.kind = "TrapLoop"
        /\ strict.trap.kind = "Ok" => Productive(raw) = Defined(raw)

\* C15: a TrapLoop error cites the span of every rule of the component it
\* reports, all the rules of an identifier that has several included.
C15_TrapLoopSpans ==
    (StrictRan /\ strict.trap.kind = "TrapLoop") =>
        \E scc \in TrapSccs(raw, graph(raw)) :
            strict.trap.spans =
                { RuleSpan(r) :
                    r \in { k \in 1..Len(raw) :
                              raw[k].lhs.name \in { NodeWeight(raw, n) : n \in scc } } }

\* the values of the leaves of a tree, from left to right
RECURSIVE Leaves(_), LeavesOfAll(_)
Leaves(t) == IF t.leaf THEN << t.value >> ELSE LeavesOfAll(t.children)

LeavesOfAll(trees) ==
    IF Len(trees) = 0 THEN <<>> ELSE Leaves(Head(trees)) \o LeavesOfAll(Tail(trees))

\* the leaves built so far, from the outermost call to the innermost
RECURSIVE LeavesOfFrames(_)
LeavesOfFrames(frames) ==
    IF Len(frames) = 0 THEN <<>>
    ELSE LeavesOfAll(Head(frames).children) \o LeavesOfFrames(Tail(frames))

\* the symbols still to be generated, from the innermost call to the outermost
RECURSIVE PendingOfFrames(_)
PendingOfFrames(frames) ==
    IF Len(frames) = 0 THEN <<>>
    ELSE PendingOfFrames(Tail(frames)) \o Head(frames).pending

\* C16: on one checked grammar, start symbol and sequence of draws, the tree
\* generator makes the reductions of the string generator in the same order
\* (the same symbol, rule, alternative and counts at every step), the leaves
\* of its tree joined by spaces are the string the generator returns, and
\* both fail alike.
C16_TreeEquivalent ==
    /\ tree.status = gen.status
    /\ tree.last = gen.last
    /\ tree.steps = gen.steps
    /\ tree.tracking = gen.tracking
    /\ tree.errName = gen.errName
    /\ gen.status = "running" =>
          /\ LeavesOfFrames(tree.frames) = gen.buf
          /\ PendingOfFrames(tree.frames) = gen.stack
    /\ gen.status = "Ok" => Join(Leaves(tree.result)) = gen.out

\* C16 happens: a tree with a branch under a branch, whose leaves are more
\* than one word, was returned together with the string
C16_Witness ==
    /\ gen.status = "Ok"
    /\ tree.status = "Ok"
    /\ Len(Leaves(tree.result)) >= 2
    /\ \E i \in 1..Len(tree.result.children) : ~tree.result.children[i].leaf

\* C17: the string emitted for a pattern is none of the literal terminals of
\* the grammar, in whatever rule they occur; with `<S> ::= re("[l-n]") |
\* re("(l|m)n"); <Keyword> ::= "m" | "ln";` the output of S is neither `m`
\* nor `ln`.
C17_NoCollision ==
    /\ (gen.last.sym.kind = "Regex" /\ gen.last.tag = "Terminal") =>
          /\ Last(gen.buf) = gen.last.s
          /\ \A p \in SymPositions(checked) :
                SymAt(checked, p).kind = "Terminal" => SymAt(checked, p).lit # gen.last.s
    /\ (raw = PatternGrammar /\ gen.start = "S" /\ gen.status = "Ok") =>
          gen.out \notin { <<"m">>, <<"l", "n">> }

\* C17 happens: the pattern [l-n] gave `m`, the terminal of another rule, was
\* sampled again and gave `n`
C17_Witness ==
    /\ raw = PatternGrammar
    /\ gen.status = "Ok"
    /\ gen.last.resampled
    /\ gen.out = <<"n">>

\* C18: the reduction of a pattern ends after finitely many samples, whatever
\* the pattern and the grammar.
C18_SamplingEnds == AtPattern(gen) ~> ~AtPattern(gen)

\* a pattern of one character repeated: re("c{min,max}")
IsSimpleRepetition(re) ==
    /\ re.kind = "Repetition"
    /\ re.subs[1].kind = "Literal"
    /\ Len(re.subs[1].lit) = 1

\* C19: the sample of Repetition{min, max, sub} is the concatenation of k
\* samples of sub with min <= k <= max, 5 standing for a max that is unbounded;
\* sampling succeeds for every repetition.
C19_RepetitionSamples ==
    (gen.last.sym.kind = "Regex" /\ IsSimpleRepetition(gen.last.sym.re)) =>
        LET re == gen.last.sym.re
        IN  /\ gen.last.tag # "Panic"
            /\ \A i \in 1..Len(gen.last.s) : gen.last.s[i] = re.subs[1].lit[1]
            /\ re.min <= Len(gen.last.s)
            /\ Len(gen.last.s) <= (IF re.max = NoMax THEN 5 ELSE re.max)

\* C20: no compiled pattern holds a look-around, so the sampler never meets
\* one and every sample of a compiled pattern is a string.
C20_NoLookAround == gen.last.fault # "Look"



\* C21: when App::generate returns Ok for a request of count outputs it
\* returns count strings; attempts that were aborted by the step ceiling do
\* not make it return fewer.
C21_ExactCount == app.status = "Ok" => Len(app.outputs) = app.count

\* C22: an attempt that fails with NoCandidates or MaxStepsExceeded is
\* followed by a fresh attempt as long as the attempt cap is not reached: the
\* driver does not fail on such an error below the cap.
C22_RetryPolicy ==
    (app.status = "Err" /\ app.err \in {"NoCandidatesAvailable", "MaxDepthExceeded"}) =>
        app.attempts >= max_attempts

\* the state a call of generate starts from: the start symbol alone on the
\* stack, nothing emitted, every invoke count zero
FreshState(rules, d) ==
    [d EXCEPT !.stack = << NT(d.start, Untyped) >>, !.buf = <<>>,
              !.tracking = NoTracking, !.status = "running", !.err = "none",
              !.errName = "", !.out = NoStr, !.steps = 0,
              !.selected = [p \in AltPositions(rules) |-> 0], !.last = NoLast]

\* the call after n turns when it runs alone, with no call beside it, on an
\* RNG that starts at x
RECURSIVE Alone(_, _, _, _)
Alone(rules, d, x, n) ==
    IF n = 0 THEN d
    ELSE Alone(rules, Turn(rules, d, x, Idle), RngAfter(d, x), n - 1)

Escape(unit) ==
    CASE unit = <<BSL, QUOTE>> -> <<QUOTE>>
      [] unit = <<BSL, "n">> -> <<NL>>
      [] unit = <<BSL, "t">> -> <<TAB>>
      [] unit = <<BSL, "r">> -> <<CR>>
      [] unit = <<BSL, BSL>> -> <<BSL>>
      [] OTHER -> unit

RECURSIVE Decoded(_)
Decoded(units) ==
    IF Len(units) = 0 THEN <<>> ELSE Escape(Head(units)) \o Decoded(Tail(units))

\* C24: the string of a Str token is its literal with every escape decoded
\* once, from left to right: \" to a quote, \n to a newline, \t to a tab, \r to
\* a carriage return and \\ to one backslash.
C24_EscapesDecoded == front.kind = "Str" => front.str = Decoded(front.units)


\* C30: the span of every parse error is well formed, 0 <= start <= end, and
\* the span (L - 1, L) of an unexpected end of input at location L is
\* computed without underflow, for L = 0 too.
C30_SpansWellFormed ==
    /\ front.status # "Panic"
    /\ front.status = "Err" =>
          0 <= front.err.start /\ front.err.start <= front.err.end


\* C29: generate, for a string or for a tree, and check_unused, called with a
\* start identifier no rule defines, return an error: none of them ends the
\* program.
C29_UnknownStartIsError ==
    /\ (stage = "checked" /\ gen.start # "" /\ gen.start \notin Defined(checked)
        /\ gen.status # "running") => gen.status = "Err"
    /\ (stage = "checked" /\ gen.start # "" /\ gen.start \notin Defined(checked)
        /\ tree.status # "running") => tree.status = "Err"
    /\ (strict.start # "" /\ strict.start \notin Defined(raw)) => ~strict.panic


\* the strings of a buffer with one space between neighbours, from the right
RECURSIVE SpaceSeparated(_)
SpaceSeparated(buf) ==
    IF Len(buf) = 0 THEN <<>>
    ELSE IF Len(buf) = 1 THEN buf[1]
    ELSE SpaceSeparated(SubSeq(buf, 1, Len(buf) - 1)) \o <<" ">> \o buf[Len(buf)]

\* C26: a turn of generate reduces the first symbol of the worklist; the
\* symbols of the chosen alternative go to the front of the worklist in their
\* order, ahead of the pending symbols, a terminal goes to the end of the
\* output; the string is returned only on an empty worklist and is the
\* terminals in the order they were emitted, one space between neighbours.
C26_LeftmostOrder ==
    [][(gen.status = "running" /\ gen'.status \in {"running", "Ok"} /\ gen' # gen) =>
         IF gen'.status = "Ok"
         THEN gen.stack = <<>> /\ gen'.out = SpaceSeparated(gen.buf)
         ELSE /\ gen.stack # <<>>
              /\ gen'.last.sym = Head(gen.stack)
              /\ CASE gen'.last.tag = "NonTerminal" ->
                        /\ gen'.stack =
                              checked[gen'.last.rule].production[gen'.last.alt].symbols
                                  \o Tail(gen.stack)
                        /\ gen'.buf = gen.buf
                   [] gen'.last.tag = "Terminal" ->
                        /\ gen'.stack = Tail(gen.stack)
                        /\ gen'.buf = Append(gen.buf, gen'.last.s)
                   [] OTHER -> gen'.stack = gen.stack /\ gen'.buf = gen.buf]_vars

\* an alternative of two symbols or more was put ahead of pending symbols
C26_Witness ==
    /\ gen.status = "running"
    /\ gen.last.tag = "NonTerminal"
    /\ Len(checked[gen.last.rule].production[gen.last.alt].symbols) >= 2
    /\ Len(gen.stack) > Len(checked[gen.last.rule].production[gen.last.alt].symbols)


RECURSIVE SumOver(_, _)
SumOver(f, positions) ==
    IF positions = {} THEN 0
    ELSE LET p == CHOOSE q \in positions : TRUE
         IN  f[p] + SumOver(f, positions \ {p})

\* the alternatives with a limit that have the identity of the one at p
Sharers(rules, p) ==
    { q \in AltPositions(rules) :
        /\ has_invoke_limits(AltAt(rules, q))
        /\ id(AltAt(rules, q)) = id(AltAt(rules, p)) }

\* C27: the identity of an alternative depends on its symbol sequence only,
\* so alternatives of equal symbol sequences have one identity in whatever
\* rule, with whatever weight and limit; the count of an identity is the
\* number of selections of the alternatives with a limit that have it, so the
\* selection of an alternative without a limit changes no count.
C27_SharedCounters ==
    stage = "checked" =>
        \A p \in AltPositions(checked) :
            /\ \A q \in AltPositions(checked) :
                  AltAt(checked, q).symbols = AltAt(checked, p).symbols =>
                      id(AltAt(checked, q)) = id(AltAt(checked, p))
            /\ gen.status # "idle" =>
                  count(gen.tracking, id(AltAt(checked, p))) =
                      SumOver(gen.selected, Sharers(checked, p))

\* an alternative that was never selected has exceeded its limit through the
\* selections of an alternative of another rule, while an alternative without
\* a limit was selected too
C27_Witness ==
    /\ stage = "checked"
    /\ gen.status = "running"
    /\ gen.last.tag = "NonTerminal"
    /\ \E p \in AltPositions(checked), q \in AltPositions(checked) :
          /\ p[1] # q[1]
          /\ q[1] = gen.last.rule
          /\ q[2] \in gen.last.exceeded
          /\ gen.selected[q] = 0
          /\ gen.selected[p] > 0
          /\ AltAt(checked, q).symbols = AltAt(checked, p).symbols
    /\ \E u \in AltPositions(checked) :
          ~has_invoke_limits(AltAt(checked, u)) /\ gen.selected[u] > 0


\* C28 as stated: the count of the identity of an alternative with the limit
\* {min, max} never exceeds max + 1.
C28_CounterBound ==
    (stage = "checked" /\ gen.status # "idle") =>
        \A p \in AltPositions(checked) :
            has_invoke_limits(AltAt(checked, p)) =>
                count(gen.tracking, id(AltAt(checked, p))) <=
                    AltAt(checked, p).invoke_limit.max + 1


\* the largest max among the alternatives with a limit that have the identity
\* of the one at p
LargestMax(rules, p) ==
    CHOOSE m \in { AltAt(rules, q).invoke_limit.max : q \in Sharers(rules, p) } :
        \A q \in Sharers(rules, p) : AltAt(rules, q).invoke_limit.max <= m

\* the identities whose count a step has changed
Changed(before, after) ==
    { k \in DOMAIN before \cup DOMAIN after : count(before, k) # count(after, k) }

\* C28, amended: the count of the identity of an alternative with a limit
\* never exceeds the largest max of the alternatives with a limit that share
\* the identity, plus one; a turn of a derivation changes at most one count,
\* by exactly +1.
C28_SharedCounterBound ==
    /\ [](stage = "checked" /\ gen.status # "idle" =>
            \A p \in AltPositions(checked) :
                has_invoke_limits(AltAt(checked, p)) =>
                    count(gen.tracking, id(AltAt(checked, p))) <=
                        LargestMax(checked, p) + 1)
    /\ [][gen.status = "running" =>
            /\ Cardinality(Changed(gen.tracking, gen'.tracking)) <= 1
            /\ \A k \in Changed(gen.tracking, gen'.tracking) :
                  count(gen'.tracking, k) = count(gen.tracking, k) + 1]_vars

\* the count of an identity is beyond max + 1 of one alternative and at the
\* largest max plus one of those that share it
C28_Witness ==
    /\ stage = "checked"
    /\ gen.status # "idle"
    /\ \E p \in AltPositions(checked) :
          /\ has_invoke_limits(AltAt(checked, p))
          /\ count(gen.tracking, id(AltAt(checked, p))) >
                AltAt(checked, p).invoke_limit.max + 1
          /\ count(gen.tracking, id(AltAt(checked, p))) = LargestMax(checked, p) + 1


\* C25: a limit `{0,}` is no limit: on the same draws the derivation of a
\* grammar and that of the grammar with `{0,}` taken away go through the same
\* candidate sets, make the same choices and give the same result.
C25_OpenLimitIsUnlimited ==
    /\ gen.status = twin.status
    /\ gen.stack = twin.stack
    /\ gen.buf = twin.buf
    /\ gen.out = twin.out
    /\ gen.last.rule = twin.last.rule
    /\ gen.last.alt = twin.last.alt
    /\ gen.last.underfloor = twin.last.underfloor
    /\ gen.last.exceeded = twin.last.exceeded

=============================================================================
